---- MODULE Spec2Model ----
(***************************************************************************)
(* A model of three components of parity-bitcoin:                          *)
(*   - sync/src/utils/orphan_blocks_pool.rs   (OrphanBlocksPool)           *)
(*   - verification/src/accept_block.rs       (BlockAcceptor)              *)
(*   - hammersbald/src/datafile.rs            (DataFile)                   *)
(* Each component has its own specifications (SpecPool and SpecTraversal,  *)
(* SpecAcceptor and SpecChecks, SpecFile) over its own variables; the      *)
(* other components' variables stay at their construction values.          *)
(***************************************************************************)
EXTENDS Integers, Sequences, FiniteSets, TLC

(***************************************************************************)
(* Bounds of the model.                                                    *)
(***************************************************************************)
\* Number of distinct blocks that can be offered to the pool.
MaxBlocks == 3

(***************************************************************************)
(* Generic helpers for HashMap / HashSet / Vec values.                     *)
(* A HashMap is a function whose DOMAIN is its key set; a Vec, VecDeque or *)
(* LinkedHashMap key list is a sequence.                                   *)
(***************************************************************************)
EmptyMap == << >>

MapPut(m, k, v) == [x \in (DOMAIN m) \cup {k} |-> IF x = k THEN v ELSE m[x]]

MapRemove(m, k) == [x \in (DOMAIN m) \ {k} |-> m[x]]

SeqToSet(s) == {s[i] : i \in DOMAIN s}

\* LinkedHashMap::remove for every key of ks: the other keys keep their order.
SeqRemoveAll(s, ks) == SelectSeq(s, LAMBDA x : x \notin ks)

NoDuplicates(s) == \A i, j \in DOMAIN s : s[i] = s[j] => i = j

\* The elements of S in the order in which they occur in the enumeration ord.
IterOrder(S, ord) == SelectSeq(ord, LAMBDA x : x \in S)

\* Every order in which a hash table with the key set S can enumerate its keys.
RECURSIVE Enumerations(_)
Enumerations(S) ==
    IF S = {}
    THEN {<< >>}
    ELSE UNION {{<<x>> \o e : e \in Enumerations(S \ {x})} : x \in S}

RECURSIVE FlattenSeq(_)
FlattenSeq(ss) == IF ss = << >> THEN << >> ELSE Head(ss) \o FlattenSeq(Tail(ss))

(***************************************************************************)
(* Blocks.  A block hash is the double-SHA256 of the header, and the       *)
(* header contains previous_header_hash: the hash determines the parent,   *)
(* and parent links cannot form a cycle.  Hash 0 stands for a block that   *)
(* is never offered to the pool (e.g. genesis); block h > 0 has a parent   *)
(* with a smaller number.                                                  *)
(***************************************************************************)
Hashes == 0..MaxBlocks

BlockHashes == 1..MaxBlocks

\* The hashes in ascending order: where the order of some keys cannot be
\* observed (keys a loop finds in no table, blocks put into a pool that is
\* given as a whole) they are taken in this order.
Ascending == [i \in 1..(MaxBlocks + 1) |-> i - 1]

\* The possible parent relations among the blocks offered to the pool.
Chains == {f \in [BlockHashes -> Hashes] : \A h \in BlockHashes : f[h] < h}

\* chain::IndexedBlock reduced to the two header fields the pool reads.
IndexedBlock(h, p) == [hash |-> h, previous_header_hash |-> p]

VARIABLES
    prev,             \* environment: parent hash of every block that exists
    orphaned_blocks,  \* HashMap<SHA256D, HashMap<SHA256D, IndexedBlock>>
    unknown_blocks,   \* LinkedHashMap<SHA256D, f64>: its keys in insertion order
    call,             \* the last pool method called, with its argument
    ret,              \* the value it returned
    panicked,         \* TRUE when that call ended in a panic instead of returning
    traversal         \* Pending, or the locals of a remove_blocks_for_parent call
                      \* that is followed one loop iteration at a time

(***************************************************************************)
(* OrphanBlocksPool: pure versions of the methods.                         *)
(***************************************************************************)
\* OrphanBlocksPool::new
new == [orphaned_blocks |-> EmptyMap, unknown_blocks |-> << >>]

\* Mutant of len: counts the blocks instead of the buckets.
len_CountsBlocks(ob) == Cardinality(UNION {{<<p, h>> : h \in DOMAIN ob[p]} : p \in DOMAIN ob})

\* OrphanBlocksPool::len
len(ob) == Cardinality(DOMAIN ob)

\* OrphanBlocksPool::contains_unknown_block
contains_unknown_block(ub, hash) == hash \in SeqToSet(ub)

\* Mutant of insert_orphaned_block: a block that is stored already takes the
\* whole bucket of its parent.
insert_orphaned_block_ResetsBucket(ob, block) ==
    LET parent == block.previous_header_hash
        bucket == IF parent \in DOMAIN ob /\ block.hash \notin DOMAIN ob[parent]
                  THEN ob[parent]
                  ELSE EmptyMap
    IN  MapPut(ob, parent, MapPut(bucket, block.hash, block))

\* OrphanBlocksPool::insert_orphaned_block: entry(parent).or_insert_with(new).insert(hash, block)
insert_orphaned_block(ob, block) ==
    LET parent == block.previous_header_hash
        bucket == IF parent \in DOMAIN ob THEN ob[parent] ELSE EmptyMap
    IN  MapPut(ob, parent, MapPut(bucket, block.hash, block))

\* LinkedHashMap::insert (linked-hash-map crate): a new key is linked at the
\* back; an existing key gets the new value and is moved to the back.
LinkedInsert(ub, hash) == Append(SeqRemoveAll(ub, {hash}), hash)

\* Mutant of insert_unknown_block: no assertion on the previous value.
insert_unknown_block_NoAssert(ob, ub, block) ==
    [orphaned_blocks |-> insert_orphaned_block(ob, block),
     unknown_blocks  |-> LinkedInsert(ub, block.hash),
     panicked        |-> FALSE]

\* Mutant of insert_unknown_block: a new key is linked at the front of the list.
insert_unknown_block_PushFront(ob, ub, block) ==
    LET previous_value_is_none == ~contains_unknown_block(ub, block.hash)
    IN  IF previous_value_is_none
        THEN [orphaned_blocks |-> insert_orphaned_block(ob, block),
              unknown_blocks  |-> <<block.hash>> \o ub,
              panicked        |-> FALSE]
        ELSE [orphaned_blocks |-> ob, unknown_blocks |-> ub, panicked |-> TRUE]

\* OrphanBlocksPool::insert_unknown_block.  unknown_blocks.insert runs first;
\* assert_eq!(previous_value, None) panics when the hash was a key already,
\* and then insert_orphaned_block is not reached.
insert_unknown_block(ob, ub, block) ==
    LET previous_value_is_none == ~contains_unknown_block(ub, block.hash)
        inserted == LinkedInsert(ub, block.hash)
    IN  IF previous_value_is_none
        THEN [orphaned_blocks |-> insert_orphaned_block(ob, block),
              unknown_blocks  |-> inserted,
              panicked        |-> FALSE]
        ELSE [orphaned_blocks |-> ob, unknown_blocks |-> inserted, panicked |-> TRUE]

\* Mutant of RemoveLoop: the removed children stay in unknown_blocks.
RECURSIVE RemoveLoop_KeepsUnknown(_, _, _, _, _)
RemoveLoop_KeepsUnknown(ob, ub, queue, removed, ord) ==
    IF queue = << >>
    THEN [orphaned_blocks |-> ob, unknown_blocks |-> ub, removed |-> removed]
    ELSE LET parent_hash == Head(queue)
         IN  IF parent_hash \in DOMAIN ob
             THEN LET orphaned == ob[parent_hash]
                      keys     == IterOrder(DOMAIN orphaned, ord)
                  IN  RemoveLoop_KeepsUnknown(MapRemove(ob, parent_hash),
                                 ub,
                                 Tail(queue) \o keys,
                                 removed \o [i \in 1..Len(keys) |-> orphaned[keys[i]]],
                                 ord)
             ELSE RemoveLoop_KeepsUnknown(ob, ub, Tail(queue), removed, ord)

\* Mutant of RemoveLoop: the children are put in front of removed (push_front).
RECURSIVE RemoveLoop_Prepends(_, _, _, _, _)
RemoveLoop_Prepends(ob, ub, queue, removed, ord) ==
    IF queue = << >>
    THEN [orphaned_blocks |-> ob, unknown_blocks |-> ub, removed |-> removed]
    ELSE LET parent_hash == Head(queue)
         IN  IF parent_hash \in DOMAIN ob
             THEN LET orphaned == ob[parent_hash]
                      keys     == IterOrder(DOMAIN orphaned, ord)
                  IN  RemoveLoop_Prepends(MapRemove(ob, parent_hash),
                                 SeqRemoveAll(ub, DOMAIN orphaned),
                                 Tail(queue) \o keys,
                                 [i \in 1..Len(keys) |-> orphaned[keys[i]]] \o removed,
                                 ord)
             ELSE RemoveLoop_Prepends(ob, ub, Tail(queue), removed, ord)

\* Mutant of RemoveLoop: the children are not queued, so grandchildren stay.
RECURSIVE RemoveLoop_ChildrenOnly(_, _, _, _, _)
RemoveLoop_ChildrenOnly(ob, ub, queue, removed, ord) ==
    IF queue = << >>
    THEN [orphaned_blocks |-> ob, unknown_blocks |-> ub, removed |-> removed]
    ELSE LET parent_hash == Head(queue)
         IN  IF parent_hash \in DOMAIN ob
             THEN LET orphaned == ob[parent_hash]
                      keys     == IterOrder(DOMAIN orphaned, ord)
                  IN  RemoveLoop_ChildrenOnly(MapRemove(ob, parent_hash),
                                 SeqRemoveAll(ub, DOMAIN orphaned),
                                 Tail(queue),
                                 removed \o [i \in 1..Len(keys) |-> orphaned[keys[i]]],
                                 ord)
             ELSE RemoveLoop_ChildrenOnly(ob, ub, Tail(queue), removed, ord)

\* Mutant of RemoveLoop: removing a bucket clears unknown_blocks and puts the
\* hashes that were not in the bucket back, last first.
RECURSIVE RemoveLoop_ReinsertsUnknown(_, _, _, _, _)
RemoveLoop_ReinsertsUnknown(ob, ub, queue, removed, ord) ==
    IF queue = << >>
    THEN [orphaned_blocks |-> ob, unknown_blocks |-> ub, removed |-> removed]
    ELSE LET parent_hash == Head(queue)
         IN  IF parent_hash \in DOMAIN ob
             THEN LET orphaned == ob[parent_hash]
                      keys     == IterOrder(DOMAIN orphaned, ord)
                      kept     == SeqRemoveAll(ub, DOMAIN orphaned)
                  IN  RemoveLoop_ReinsertsUnknown(MapRemove(ob, parent_hash),
                                 [i \in 1..Len(kept) |-> kept[Len(kept) + 1 - i]],
                                 Tail(queue) \o keys,
                                 removed \o [i \in 1..Len(keys) |-> orphaned[keys[i]]],
                                 ord)
             ELSE RemoveLoop_ReinsertsUnknown(ob, ub, Tail(queue), removed, ord)

\* Mutant of RemoveLoopBody: the bucket is read but stays in orphaned_blocks.
RemoveLoopBody_PeeksBucket(ob, ub, queue, removed, ord) ==
    LET parent_hash == Head(queue)
    IN  IF parent_hash \in DOMAIN ob
        THEN LET orphaned == ob[parent_hash]
                 keys     == IterOrder(DOMAIN orphaned, ord)
             IN  [orphaned_blocks |-> ob,
                  unknown_blocks  |-> SeqRemoveAll(ub, DOMAIN orphaned),
                  queue           |-> Tail(queue) \o keys,
                  removed         |-> removed \o [i \in 1..Len(keys) |-> orphaned[keys[i]]]]
        ELSE [orphaned_blocks |-> ob, unknown_blocks |-> ub,
              queue |-> Tail(queue), removed |-> removed]

\* One iteration of the while-let loop of remove_blocks_for_parent, for a
\* queue that is not empty: pop_front, and when the popped hash has a bucket,
\* remove_entry, drop the children from unknown_blocks, queue their hashes and
\* append the blocks to removed.  ord is an enumeration of the bucket's keys
\* (keys() and into_iter() walk the same table, so they agree).
RemoveLoopBody(ob, ub, queue, removed, ord) ==
    LET parent_hash == Head(queue)
    IN  IF parent_hash \in DOMAIN ob
        THEN LET orphaned == ob[parent_hash]
                 keys     == IterOrder(DOMAIN orphaned, ord)
             IN  [orphaned_blocks |-> MapRemove(ob, parent_hash),
                  unknown_blocks  |-> SeqRemoveAll(ub, DOMAIN orphaned),
                  queue           |-> Tail(queue) \o keys,
                  removed         |-> removed \o [i \in 1..Len(keys) |-> orphaned[keys[i]]]]
        ELSE [orphaned_blocks |-> ob, unknown_blocks |-> ub,
              queue |-> Tail(queue), removed |-> removed]

\* The while-let loop of remove_blocks_for_parent, run until the queue is empty.
RECURSIVE RemoveLoop(_, _, _, _, _)
RemoveLoop(ob, ub, queue, removed, ord) ==
    IF queue = << >>
    THEN [orphaned_blocks |-> ob, unknown_blocks |-> ub, removed |-> removed]
    ELSE LET s == RemoveLoopBody(ob, ub, queue, removed, ord)
         IN  RemoveLoop(s.orphaned_blocks, s.unknown_blocks, s.queue, s.removed, ord)

\* OrphanBlocksPool::remove_blocks_for_parent
remove_blocks_for_parent(ob, ub, hash, ord) ==
    RemoveLoop(ob, ub, <<hash>>, << >>, ord)

\* Mutant of RetainBuckets: retain() pushes the hashes but leaves the blocks
\* in their buckets.
RetainBuckets_KeepsBlocks(ob, hashes) == ob

\* Mutant of RetainBuckets: retain() keeps the emptied buckets.
RetainBuckets_KeepsEmpty(ob, hashes) ==
    [p \in DOMAIN ob |-> [h \in (DOMAIN ob[p]) \ hashes |-> ob[p][h]]]

\* The retain() call of remove_blocks: every hash of hashes is taken out of
\* every bucket and pushed to removed; emptied buckets are dropped.
RetainBuckets(ob, hashes) ==
    [p \in {q \in DOMAIN ob : (DOMAIN ob[q]) \ hashes # {}} |->
        [h \in (DOMAIN ob[p]) \ hashes |-> ob[p][h]]]

\* The iteration order of a std HashMap / HashSet is unspecified, and every
\* table has its own.  The orders a call meets are given as a record ord:
\*   ord.orphaned_blocks : an enumeration of the keys of orphaned_blocks,
\*   ord.hashes          : an enumeration of the HashSet of hashes,
\*   ord.buckets         : an enumeration of the keys of every bucket (a hash
\*                         is a key of one bucket, so one sequence holds the
\*                         order of each of them).
\* TableOrders is the set of orders the tables of the pool ob and the set
\* hashes can have, up to what a call can observe: the buckets that hold no
\* hash of hashes push nothing in retain(), and a hash that is neither pooled
\* nor the key of a bucket removes nothing, so these keys are enumerated last,
\* in ascending order; the buckets are enumerated independently of each other.
TableOrders(ob, hashes) ==
    LET hit  == {p \in DOMAIN ob : (DOMAIN ob[p]) \cap hashes # {}}
        met  == hashes \cap ((DOMAIN ob) \cup UNION {DOMAIN ob[p] : p \in DOMAIN ob})
        RECURSIVE PerBucket(_)
        PerBucket(parents) ==
            IF parents = << >>
            THEN {<< >>}
            ELSE {e \o r : e \in Enumerations(DOMAIN ob[Head(parents)]),
                           r \in PerBucket(Tail(parents))}
    IN  [orphaned_blocks : {e \o IterOrder((DOMAIN ob) \ hit, Ascending) : e \in Enumerations(hit)},
         hashes          : {e \o IterOrder(hashes \ met, Ascending) : e \in Enumerations(met)},
         buckets         : PerBucket(IterOrder(DOMAIN ob, Ascending))]

\* The hashes the retain() call of remove_blocks pushes to removed: retain
\* visits the buckets in the order of orphaned_blocks, and for each bucket the
\* loop runs over hashes in the order of the HashSet.
RetainRemoved(ob, hashes, ord) ==
    LET parents == IterOrder(DOMAIN ob, ord.orphaned_blocks)
    IN  FlattenSeq([i \in 1..Len(parents) |->
                        IterOrder(hashes \cap DOMAIN ob[parents[i]], ord.hashes)])

\* Mutant of CascadeLoop: the dependent blocks are not removed.
CascadeLoop_Skipped(ob, ub, todo, removed, ord) ==
    [orphaned_blocks |-> ob, unknown_blocks |-> ub, removed |-> removed]

\* The final loop of remove_blocks: cascade from every hash of hashes; ord is
\* the enumeration of the buckets' keys.
RECURSIVE CascadeLoop(_, _, _, _, _)
CascadeLoop(ob, ub, todo, removed, ord) ==
    IF todo = << >>
    THEN [orphaned_blocks |-> ob, unknown_blocks |-> ub, removed |-> removed]
    ELSE LET r == remove_blocks_for_parent(ob, ub, Head(todo), ord)
         IN  CascadeLoop(r.orphaned_blocks, r.unknown_blocks, Tail(todo),
                         removed \o [i \in 1..Len(r.removed) |-> r.removed[i].hash],
                         ord)

\* OrphanBlocksPool::remove_blocks
remove_blocks(ob, ub, hashes, ord) ==
    LET direct == RetainRemoved(ob, hashes, ord)
    IN  CascadeLoop(RetainBuckets(ob, hashes),
                    SeqRemoveAll(ub, SeqToSet(direct)),
                    IterOrder(hashes, ord.hashes),
                    direct,
                    ord.buckets)

\* OrphanBlocksPool::remove_known_blocks.  orphans_to_remove is the HashSet
\* that remove_blocks iterates and that into_iter() then turns into the result.
remove_known_blocks(ob, ub, ord) ==
    LET orphans_to_remove ==
            {h \in UNION {DOMAIN ob[p] : p \in DOMAIN ob} : ~contains_unknown_block(ub, h)}
        r == remove_blocks(ob, ub, orphans_to_remove, ord)
    IN  [orphaned_blocks |-> r.orphaned_blocks,
         unknown_blocks  |-> r.unknown_blocks,
         removed         |-> IterOrder(orphans_to_remove, ord.hashes)]

(***************************************************************************)
(* BlockAcceptor (verification/src/accept_block.rs).                       *)
(*                                                                         *)
(* A candidate is what BlockAcceptor::new receives: the block, the height, *)
(* the consensus parameters, the deployment flags, and the answers of the  *)
(* collaborators the checks consult (median_timestamp, block_reward_satoshi*)
(* the transaction output store, the sigops counters, the serializer).     *)
(*   candidate.block.transactions : sequence of transactions, coinbase     *)
(*       first; a transaction is                                           *)
(*       [lock_time, inputs, outputs, sigops, p2sh_sigops, witness_sigops] *)
(*   input  : [prevout, final, script_sig, script_witness]                 *)
(*   output : [value, script_pubkey]                                       *)
(* Scripts and witness items are sequences of bytes.                       *)
(***************************************************************************)
\* u64 arithmetic is modelled modulo U64Modulus (2^64 in the code).
U64Modulus == 16

None == [some |-> FALSE]

Some(v) == [some |-> TRUE, value |-> v]

\* u64::overflowing_add
overflowing_add(a, b) ==
    [value |-> (a + b) % U64Modulus, overflow |-> a + b >= U64Modulus]

\* u64::overflowing_sub
overflowing_sub(a, b) ==
    [value |-> (a - b) % U64Modulus, overflow |-> a < b]

RECURSIVE SumSeq(_)
SumSeq(s) == IF s = << >> THEN 0 ELSE Head(s) + SumSeq(Tail(s))

\* s.starts_with(prefix) on byte slices
starts_with(s, prefix) ==
    /\ Len(prefix) <= Len(s)
    /\ SubSeq(s, 1, Len(prefix)) = prefix

\* The call did not return: a panic.
Panic == [tag |-> "Panic"]

\* verification::Error values
Ok == [tag |-> "Ok"]

Err(t) == [tag |-> t]

ErrSize(size) == [tag |-> "Size", size |-> size]

ErrTransaction(tx_idx, e) == [tag |-> "Transaction", index |-> tx_idx, error |-> e]

ErrCoinbaseOverspend(reward, claim) ==
    [tag |-> "CoinbaseOverspend", expected_max |-> reward, actual |-> claim]

\* Collaborators outside accept_block.rs -------------------------------------

\* chain::Transaction::is_final_in_block
is_final_in_block(tx, block_height, block_time) ==
    \/ tx.lock_time = 0
    \/ tx.lock_time < (IF tx.lock_time < 500000000 THEN block_height ELSE block_time)
    \/ \A i \in DOMAIN tx.inputs : tx.inputs[i].final

\* chain::Transaction::total_spends
total_spends(tx) == SumSeq([i \in DOMAIN tx.outputs |-> tx.outputs[i].value])

\* chain::Transaction::has_witness
has_witness(tx) == \E i \in DOMAIN tx.inputs : tx.inputs[i].script_witness # << >>

\* sigops::transaction_sigops: the pay-to-script-hash sigops count once BIP16 is active
transaction_sigops(tx, bip16_active) ==
    tx.sigops + (IF bip16_active THEN tx.p2sh_sigops ELSE 0)

\* sigops::transaction_sigops_cost
transaction_sigops_cost(tx, tx_sigops) == tx_sigops * 4 + tx.witness_sigops

\* Little-endian magnitude bytes of a positive script number.
RECURSIVE NumMagnitude(_)
NumMagnitude(n) == IF n = 0 THEN << >> ELSE <<n % 256>> \o NumMagnitude(n \div 256)

\* script::Num serialization of n >= 0: a 0x00 byte follows when the top bit is set.
NumBytes(n) ==
    LET m == NumMagnitude(n)
    IN  IF m # << >> /\ m[Len(m)] >= 128 THEN Append(m, 0) ELSE m

\* script::Builder::push_num(n).into_script() for a block height n >= 0:
\* OP_0, OP_1..OP_16, or a direct push of the number's bytes.
push_num(n) ==
    IF n = 0 THEN <<0>>
    ELSE IF n <= 16 THEN <<80 + n>>
    ELSE <<Len(NumBytes(n))>> \o NumBytes(n)

\* The 6-byte tag of a witness commitment output: OP_RETURN 0x24 0xaa21a9ed.
WitnessCommitmentTag == <<106, 36, 170, 33, 169, 237>>

\* script::is_witness_commitment_script
is_witness_commitment_script(script_pubkey) ==
    /\ Len(script_pubkey) >= 36
    /\ SubSeq(script_pubkey, 1, 6) = WitnessCommitmentTag

\* bitcrypto::dhash256: a 32-byte digest; the model keeps the preimage in every
\* byte, which makes the digest collision free.
dhash256(data) == [i \in 1..32 |-> data]

\* SHA256D::from_slice: Err unless the slice is 32 bytes long.
from_slice(bytes) == IF Len(bytes) = 32 THEN Some(bytes) ELSE None

\* The six checks ------------------------------------------------------------

\* Mutant of BlockFinality_check: the cutoff is the header's time whatever
\* the state of CSV.
BlockFinality_check_HeaderTime(c) ==
    LET time_cutoff == c.block.header.time
        txs         == c.block.transactions
    IN  IF \A i \in DOMAIN txs : is_final_in_block(txs[i], c.height, time_cutoff)
        THEN Ok
        ELSE Err("NonFinalBlock")

\* BlockFinality::check
BlockFinality_check(c) ==
    LET time_cutoff == IF c.csv_active THEN c.median_timestamp ELSE c.block.header.time
        txs         == c.block.transactions
    IN  IF \A i \in DOMAIN txs : is_final_in_block(txs[i], c.height, time_cutoff)
        THEN Ok
        ELSE Err("NonFinalBlock")

\* Mutant of BlockSerializedSize_check: a block of exactly max_block_size is
\* too big.
BlockSerializedSize_check_SizeAtLimitFails(c) ==
    LET size == c.block.size
    IN  IF size >= c.consensus.max_block_size
        THEN ErrSize(size)
        ELSE IF c.segwit_active
                /\ size * (c.consensus.witness_scale_factor - 1) + c.block.size_with_witness
                       > c.consensus.max_block_weight
        THEN Err("Weight")
        ELSE Ok

\* Mutant of BlockSerializedSize_check: the weight is limited whatever the
\* state of SegWit.
BlockSerializedSize_check_WeightAlways(c) ==
    LET size == c.block.size
    IN  IF size > c.consensus.max_block_size
        THEN ErrSize(size)
        ELSE IF size * (c.consensus.witness_scale_factor - 1) + c.block.size_with_witness
                       > c.consensus.max_block_weight
        THEN Err("Weight")
        ELSE Ok

\* BlockSerializedSize::check
BlockSerializedSize_check(c) ==
    LET size == c.block.size
    IN  IF size > c.consensus.max_block_size
        THEN ErrSize(size)
        ELSE IF c.segwit_active
                /\ size * (c.consensus.witness_scale_factor - 1) + c.block.size_with_witness
                       > c.consensus.max_block_weight
        THEN Err("Weight")
        ELSE Ok

\* Mutant of BlockSigops_check: the cost is compared before the count.
BlockSigops_check_CostFirst(c) ==
    LET bip16_active == c.block.header.time >= c.consensus.bip16_time
        txs          == c.block.transactions
        tx_sigops    == [i \in DOMAIN txs |-> transaction_sigops(txs[i], bip16_active)]
        sigops       == SumSeq(tx_sigops)
        sigops_cost  == SumSeq([i \in DOMAIN txs |-> transaction_sigops_cost(txs[i], tx_sigops[i])])
    IN  IF sigops_cost > c.consensus.max_block_sigops_cost
        THEN Err("MaximumSigopsCost")
        ELSE IF sigops > c.consensus.max_block_sigops
        THEN Err("MaximumSigops")
        ELSE Ok

\* BlockSigops::check
BlockSigops_check(c) ==
    LET bip16_active == c.block.header.time >= c.consensus.bip16_time
        txs          == c.block.transactions
        tx_sigops    == [i \in DOMAIN txs |-> transaction_sigops(txs[i], bip16_active)]
        sigops       == SumSeq(tx_sigops)
        sigops_cost  == SumSeq([i \in DOMAIN txs |-> transaction_sigops_cost(txs[i], tx_sigops[i])])
    IN  IF sigops > c.consensus.max_block_sigops
        THEN Err("MaximumSigops")
        ELSE IF sigops_cost > c.consensus.max_block_sigops_cost
        THEN Err("MaximumSigopsCost")
        ELSE Ok

\* The inner loop of BlockCoinbaseClaim::check over the inputs of one
\* transaction: Some(sum of the referenced outputs), or None on overflow.
RECURSIVE IncomingLoop(_, _)
IncomingLoop(inputs, incoming) ==
    IF inputs = << >>
    THEN Some(incoming)
    ELSE LET prevout == Head(inputs).prevout
             r       == overflowing_add(incoming, IF prevout.some THEN prevout.value ELSE 0)
         IN  IF r.overflow THEN None ELSE IncomingLoop(Tail(inputs), r.value)

\* Mutant of FeesLoop: the fees are added with wrapping_add.
RECURSIVE FeesLoop_WrappingFees(_, _, _)
FeesLoop_WrappingFees(txs, i, fees) ==
    IF i > Len(txs)
    THEN Some(fees)
    ELSE LET incoming == IncomingLoop(txs[i].inputs, 0)
         IN  IF ~incoming.some
             THEN Err("ReferencedInputsSumOverflow")
             ELSE LET d == overflowing_sub(incoming.value, total_spends(txs[i]))
                  IN  IF d.overflow
                      THEN ErrTransaction(i - 1, "Overspend")
                      ELSE FeesLoop_WrappingFees(txs, i + 1, overflowing_add(fees, d.value).value)

\* The outer loop of BlockCoinbaseClaim::check from transaction number i
\* (1-based; the code's tx_idx is i - 1): an error, or Some(fees).
RECURSIVE FeesLoop(_, _, _)
FeesLoop(txs, i, fees) ==
    IF i > Len(txs)
    THEN Some(fees)
    ELSE LET incoming == IncomingLoop(txs[i].inputs, 0)
         IN  IF ~incoming.some
             THEN Err("ReferencedInputsSumOverflow")
             ELSE LET d == overflowing_sub(incoming.value, total_spends(txs[i]))
                  IN  IF d.overflow
                      THEN ErrTransaction(i - 1, "Overspend")
                      ELSE LET f == overflowing_add(fees, d.value)
                           IN  IF f.overflow
                               THEN Err("TransactionFeesOverflow")
                               ELSE FeesLoop(txs, i + 1, f.value)

\* Mutant of BlockCoinbaseClaim_check: the scan does not skip the coinbase.
BlockCoinbaseClaim_check_ScansCoinbase(c) ==
    LET txs  == c.block.transactions
        fees == FeesLoop(txs, 1, 0)
    IN  IF "tag" \in DOMAIN fees
        THEN fees
        ELSE IF txs = << >>
        THEN Panic
        ELSE LET claim == total_spends(txs[1])
                 r     == overflowing_add(fees.value, c.block_reward)
             IN  IF r.overflow
                 THEN Err("TransactionFeeAndRewardOverflow")
                 ELSE IF claim > r.value
                 THEN ErrCoinbaseOverspend(r.value, claim)
                 ELSE Ok

\* BlockCoinbaseClaim::check
BlockCoinbaseClaim_check(c) ==
    LET txs  == c.block.transactions
        fees == FeesLoop(txs, 2, 0)
    IN  IF "tag" \in DOMAIN fees
        THEN fees
        ELSE IF txs = << >>
        THEN Panic
        ELSE LET claim == total_spends(txs[1])
                 r     == overflowing_add(fees.value, c.block_reward)
             IN  IF r.overflow
                 THEN Err("TransactionFeeAndRewardOverflow")
                 ELSE IF claim > r.value
                 THEN ErrCoinbaseOverspend(r.value, claim)
                 ELSE Ok

\* Mutant of BlockCoinbaseScript_check: the script is checked at every height.
BlockCoinbaseScript_check_AlwaysEnforced(c) ==
    LET txs          == c.block.transactions
        prefix       == push_num(c.height)
        matches      == /\ txs # << >>
                        /\ txs[1].inputs # << >>
                        /\ starts_with(txs[1].inputs[1].script_sig, prefix)
    IN  IF matches THEN Ok
        ELSE Err("CoinbaseScript")

\* BlockCoinbaseScript::check
BlockCoinbaseScript_check(c) ==
    LET bip34_active == c.height >= c.consensus.bip34_height
        txs          == c.block.transactions
        prefix       == push_num(c.height)
        matches      == /\ txs # << >>
                        /\ txs[1].inputs # << >>
                        /\ starts_with(txs[1].inputs[1].script_sig, prefix)
    IN  IF ~bip34_active THEN Ok
        ELSE IF matches THEN Ok
        ELSE Err("CoinbaseScript")

\* Mutant of LastCommitment: the first output whose script is a witness
\* commitment (find without rev).
LastCommitment_First(outputs) ==
    LET found == {i \in DOMAIN outputs : is_witness_commitment_script(outputs[i].script_pubkey)}
    IN  IF found = {} THEN None
        ELSE Some(outputs[CHOOSE i \in found : \A j \in found : i <= j])

\* The last output of the coinbase whose script is a witness commitment.
LastCommitment(outputs) ==
    LET found == {i \in DOMAIN outputs : is_witness_commitment_script(outputs[i].script_pubkey)}
    IN  IF found = {} THEN None
        ELSE Some(outputs[CHOOSE i \in found : \A j \in found : j <= i])

\* BlockWitness::check
BlockWitness_check(c) ==
    LET txs        == c.block.transactions
        commitment == IF txs = << >> THEN None ELSE LastCommitment(txs[1].outputs)
        any_witness == \E i \in DOMAIN txs : has_witness(txs[i])
    IN  IF ~c.segwit_active THEN Ok
        ELSE IF commitment.some
        THEN LET inputs == txs[1].inputs
             IN  IF \/ (IF inputs = << >> THEN 0 ELSE Len(inputs[1].script_witness)) # 1
                    \/ Len(inputs[1].script_witness[1]) # 32
                 THEN Err("WitnessInvalidNonceSize")
                 ELSE LET hash_witness == dhash256(<<c.block.witness_merkle_root>>
                                                       \o inputs[1].script_witness[1])
                          script       == commitment.value.script_pubkey
                          expected     == from_slice(SubSeq(script, 7, Len(script)))
                      IN  IF ~expected.some \/ hash_witness # expected.value
                          THEN Err("WitnessMerkleCommitmentMismatch")
                          ELSE Ok
        ELSE IF any_witness THEN Err("UnexpectedWitness")
        ELSE Ok

\* Mutant of BlockAcceptor_check: serialized size is checked before sigops.
BlockAcceptor_check_SizeFirst(c) ==
    IF BlockFinality_check(c) # Ok THEN BlockFinality_check(c)
    ELSE IF BlockSerializedSize_check(c) # Ok THEN BlockSerializedSize_check(c)
    ELSE IF BlockSigops_check(c) # Ok THEN BlockSigops_check(c)
    ELSE IF BlockCoinbaseClaim_check(c) # Ok THEN BlockCoinbaseClaim_check(c)
    ELSE IF BlockCoinbaseScript_check(c) # Ok THEN BlockCoinbaseScript_check(c)
    ELSE BlockWitness_check(c)

\* BlockAcceptor::check: each `?` returns the first error.
BlockAcceptor_check(c) ==
    IF BlockFinality_check(c) # Ok THEN BlockFinality_check(c)
    ELSE IF BlockSigops_check(c) # Ok THEN BlockSigops_check(c)
    ELSE IF BlockSerializedSize_check(c) # Ok THEN BlockSerializedSize_check(c)
    ELSE IF BlockCoinbaseClaim_check(c) # Ok THEN BlockCoinbaseClaim_check(c)
    ELSE IF BlockCoinbaseScript_check(c) # Ok THEN BlockCoinbaseScript_check(c)
    ELSE BlockWitness_check(c)

(***************************************************************************)
(* Candidate blocks offered to the acceptor.                               *)
(***************************************************************************)
\* network::ConsensusParams of the main network.
Consensus ==
    [max_block_size        |-> 1000000,
     max_block_weight      |-> 4000000,
     witness_scale_factor  |-> 4,
     max_block_sigops      |-> 20000,
     max_block_sigops_cost |-> 80000,
     bip16_time            |-> 1333238400,
     bip34_height          |-> 227931]

\* A 32-byte witness nonce.
Nonce32 == [i \in 1..32 |-> 0]

\* An output script that is not a witness commitment (a lone OP_DUP).
PlainScript == <<118>>

CommitmentScript(root, nonce) == WitnessCommitmentTag \o dhash256(<<root>> \o nonce)

\* One choice per sub-check; every sub-check can pass or fail on its own.
AcceptorKnobs ==
    [height    : {Consensus.bip34_height - 1, Consensus.bip34_height},
     csv       : BOOLEAN,
     segwit    : BOOLEAN,
     time      : {Consensus.bip16_time - 1, Consensus.bip16_time},
     lock      : {"none", "before_time", "at_time"},
     size      : {"fits", "too_big", "too_heavy"},
     sigops    : {"none", "too_many", "too_costly", "p2sh"},
     claim     : {"exact", "tx_overspend", "coinbase_overspend"},
     script    : {"height", "empty"},
     witness   : {"none", "uncommitted", "committed", "short_nonce", "mismatch"}]

CoinbaseOf(k) ==
    [lock_time      |-> 0,
     inputs         |-> <<[prevout        |-> None,
                           final          |-> TRUE,
                           script_sig     |-> IF k.script = "height"
                                              THEN push_num(Consensus.bip34_height) \o <<1, 2>>
                                              ELSE << >>,
                           script_witness |-> CASE k.witness \in {"committed", "mismatch"} -> <<Nonce32>>
                                                [] k.witness = "short_nonce" -> << <<0>> >>
                                                [] OTHER -> << >>]>>,
     outputs        |-> <<[value |-> IF k.claim = "coinbase_overspend" THEN 4
                                     ELSE IF k.claim = "tx_overspend" THEN 2 ELSE 3,
                           script_pubkey |-> PlainScript]>>
                        \o (CASE k.witness \in {"committed", "short_nonce"} ->
                                    <<[value |-> 0, script_pubkey |-> CommitmentScript(7, Nonce32)]>>
                              [] k.witness = "mismatch" ->
                                    <<[value |-> 0, script_pubkey |-> CommitmentScript(8, Nonce32)]>>
                              [] OTHER -> << >>),
     sigops         |-> 0,
     p2sh_sigops    |-> 0,
     witness_sigops |-> 0]

SpenderOf(k) ==
    [lock_time      |-> CASE k.lock = "none" -> 0
                          [] k.lock = "before_time" -> k.time - 1
                          [] OTHER -> k.time,
     inputs         |-> <<[prevout        |-> Some(IF k.claim = "tx_overspend" THEN 1 ELSE 2),
                           final          |-> FALSE,
                           script_sig     |-> << >>,
                           script_witness |-> IF k.witness = "uncommitted" THEN << <<1>> >> ELSE << >>]>>,
     outputs        |-> <<[value |-> IF k.claim = "tx_overspend" THEN 2 ELSE 1,
                           script_pubkey |-> PlainScript]>>,
     sigops         |-> CASE k.sigops = "none" -> 0
                          [] k.sigops = "too_many" -> Consensus.max_block_sigops + 1
                          [] OTHER -> Consensus.max_block_sigops,
     p2sh_sigops    |-> IF k.sigops = "p2sh" THEN 1 ELSE 0,
     witness_sigops |-> IF k.sigops = "too_costly" THEN 1 ELSE 0]

CandidateOf(k) ==
    [consensus        |-> Consensus,
     height           |-> k.height,
     csv_active       |-> k.csv,
     segwit_active    |-> k.segwit,
     median_timestamp |-> k.time - 2,
     block_reward     |-> 2,
     block            |->
        [header              |-> [time |-> k.time],
         size                |-> IF k.size = "too_big"
                                 THEN Consensus.max_block_size + 1
                                 ELSE Consensus.max_block_size,
         size_with_witness   |-> IF k.size = "fits"
                                 THEN Consensus.max_block_size
                                 ELSE Consensus.max_block_size + 1,
         witness_merkle_root |-> 7,
         transactions        |-> <<CoinbaseOf(k), SpenderOf(k)>>]]

AcceptorCandidates == {CandidateOf(k) : k \in AcceptorKnobs}

Pending == [tag |-> "Pending"]

(***************************************************************************)
(* Candidate blocks offered to the six checks one by one.  Every family    *)
(* varies what one check reads, around the limits the check compares with. *)
(***************************************************************************)
\* The largest u64.
MaxU64 == U64Modulus - 1

Tx(lock_time, inputs, outputs, sigops, p2sh_sigops, witness_sigops) ==
    [lock_time      |-> lock_time,
     inputs         |-> inputs,
     outputs        |-> outputs,
     sigops         |-> sigops,
     p2sh_sigops    |-> p2sh_sigops,
     witness_sigops |-> witness_sigops]

Input(prevout, final, script_sig, script_witness) ==
    [prevout |-> prevout, final |-> final,
     script_sig |-> script_sig, script_witness |-> script_witness]

Output(value, script_pubkey) == [value |-> value, script_pubkey |-> script_pubkey]

\* A coinbase that claims value, with the given script_sig, witness and
\* outputs after the paying one.
Coinbase(value, script_sig, script_witness, more_outputs) ==
    Tx(0, <<Input(None, TRUE, script_sig, script_witness)>>,
       <<Output(value, PlainScript)>> \o more_outputs, 0, 0, 0)

\* A transaction that spends the prevouts (None: not found) into outputs of
\* the given values.
Spender(prevouts, values) ==
    Tx(0, [i \in DOMAIN prevouts |-> Input(prevouts[i], TRUE, << >>, << >>)],
       [i \in DOMAIN values |-> Output(values[i], PlainScript)], 0, 0, 0)

\* A candidate every check accepts: the main network at the BIP34 height, a
\* coinbase that claims the subsidy and one transaction without fee.
BaseCandidate ==
    [consensus        |-> Consensus,
     height           |-> Consensus.bip34_height,
     csv_active       |-> FALSE,
     segwit_active    |-> FALSE,
     median_timestamp |-> Consensus.bip16_time - 2,
     block_reward     |-> 2,
     block            |->
        [header              |-> [time |-> Consensus.bip16_time],
         size                |-> Consensus.max_block_size,
         size_with_witness   |-> Consensus.max_block_size,
         witness_merkle_root |-> 7,
         transactions        |-> <<Coinbase(2, push_num(Consensus.bip34_height), << >>, << >>),
                                   Spender(<<Some(1)>>, <<1>>)>>]]

\* Finality: lock times below and at the height, and below, between and
\* above the median time and the header time; inputs final or not; CSV on
\* and off.  Height 100 and lock time T + 1 is the scenario of the rules.
FinalityCandidates ==
    LET height     == 100
        T          == Consensus.bip16_time
        lock_times == {0, height - 1, height, T - 3, T - 1, T + 1}
    IN  {[BaseCandidate EXCEPT
            !.height = height,
            !.csv_active = csv,
            !.block.transactions =
                <<Coinbase(2, << >>, << >>, << >>),
                  [Spender(<<Some(1)>>, <<1>>) EXCEPT !.lock_time = lock1,
                                                       !.inputs[1].final = final1],
                  [Spender(<<Some(1)>>, <<1>>) EXCEPT !.lock_time = lock2,
                                                       !.inputs[1].final = FALSE]>>] :
            csv \in BOOLEAN, lock1 \in lock_times, final1 \in BOOLEAN,
            lock2 \in {0, T - 1}}

\* Size and weight: base sizes and sizes with witness around the two limits.
SizeCandidates ==
    {[BaseCandidate EXCEPT
        !.segwit_active = segwit,
        !.block.size = Consensus.max_block_size + ds,
        !.block.size_with_witness = Consensus.max_block_size + dw] :
        segwit \in BOOLEAN, ds \in {-1, 0, 1}, dw \in {0, 1, 3, 4}}

\* Sigops: the coinbase and one transaction share the total, which lies
\* around the two limits; pay-to-script-hash sigops count from bip16_time on.
SigopsCandidates ==
    {[BaseCandidate EXCEPT
        !.block.header.time = Consensus.bip16_time - early,
        !.block.transactions =
            <<[Coinbase(2, push_num(Consensus.bip34_height), << >>, << >>)
                  EXCEPT !.sigops = first],
              [Spender(<<Some(1)>>, <<1>>)
                  EXCEPT !.sigops = Consensus.max_block_sigops - 1 + more,
                         !.p2sh_sigops = p2sh,
                         !.witness_sigops = wit]>>] :
        early \in {0, 1}, first \in {0, 1}, more \in {0, 1}, p2sh \in {0, 1},
        wit \in {0, 4, 5}}

\* Coinbase claim: up to two transactions after the coinbase, each with
\* inputs that add up, overflow or are missing, and outputs below, at and
\* above the inputs; subsidies and claims from nothing to the largest u64.
SpenderPatterns ==
    {Spender(<<Some(2)>>, <<1>>),
     Spender(<<Some(1), Some(1)>>, <<2>>),
     Spender(<<None, Some(3)>>, <<1, 2>>),
     Spender(<<None>>, <<1>>),
     Spender(<<Some(1)>>, <<2>>),
     Spender(<<Some(MaxU64), Some(1)>>, <<1>>),
     Spender(<<Some(MaxU64)>>, << >>)}

ClaimCandidates ==
    {[BaseCandidate EXCEPT
        !.block_reward = reward,
        !.block.transactions = <<Coinbase(claim, push_num(Consensus.bip34_height), << >>, << >>)>>
                                   \o spenders] :
        reward \in {0, 2, MaxU64},
        claim \in {0, 2, 3, 4, MaxU64},
        spenders \in {<< >>} \cup {<<a>> : a \in SpenderPatterns}
                             \cup {<<a, b>> : a, b \in SpenderPatterns}}

\* Coinbase script: heights next to bip34_height and next to a height whose
\* push is known (461373: 03 3d 0a 07); scripts that start with the push
\* of the one or the other height, that are the push alone, that lack its
\* last byte, and the empty script; a coinbase without input and a block
\* without transaction.
ScriptHeights ==
    {Consensus.bip34_height - 1, Consensus.bip34_height, 461372, 461373}

CoinbaseScripts ==
    UNION {{push_num(h) \o <<0, 4>>, push_num(h), SubSeq(push_num(h), 1, Len(push_num(h)) - 1)} :
              h \in ScriptHeights}
        \cup {<< >>}

ScriptCandidates ==
    {[BaseCandidate EXCEPT
        !.height = h,
        !.block.transactions = <<Coinbase(2, script, << >>, << >>), Spender(<<Some(1)>>, <<1>>)>>] :
        h \in ScriptHeights, script \in CoinbaseScripts}
    \cup
    {[BaseCandidate EXCEPT
        !.height = h,
        !.block.transactions = txs] :
        h \in ScriptHeights,
        txs \in {<< >>, <<Tx(0, << >>, <<Output(2, PlainScript)>>, 0, 0, 0)>>}}

\* Witness: coinbase outputs without, with one and with two commitments, to
\* the witness merkle root of the block or to another one, with a script of
\* 38 bytes, shorter or longer; a coinbase witness that is the nonce, another
\* nonce, too short, two items or missing; another transaction with or
\* without witness data.
CommitmentOutputs ==
    LET good == Output(0, CommitmentScript(7, Nonce32))
        bad  == Output(0, CommitmentScript(8, Nonce32))
    IN  {<< >>,
         <<good>>,
         <<good, Output(0, PlainScript)>>,
         <<bad, good>>,
         <<good, bad>>,
         <<Output(0, SubSeq(CommitmentScript(7, Nonce32), 1, 37))>>,
         <<Output(0, CommitmentScript(7, Nonce32) \o <<0>>)>>,
         <<Output(0, SubSeq(CommitmentScript(7, Nonce32), 1, 35))>>}

CoinbaseWitnesses ==
    {<<Nonce32>>, <<[i \in 1..32 |-> 1]>>, <<SubSeq(Nonce32, 1, 31)>>, <<Nonce32, Nonce32>>, << >>}

WitnessCandidates ==
    {[BaseCandidate EXCEPT
        !.segwit_active = segwit,
        !.block.transactions =
            <<Coinbase(2, push_num(Consensus.bip34_height), wit, outs),
              [Spender(<<Some(1)>>, <<1>>) EXCEPT !.inputs[1].script_witness = other]>>] :
        segwit \in BOOLEAN, wit \in CoinbaseWitnesses, outs \in CommitmentOutputs,
        other \in {<< >>, <<(<<1>>)>>}}
    \cup
    {[BaseCandidate EXCEPT
        !.segwit_active = segwit,
        !.block.transactions = txs] :
        segwit \in BOOLEAN,
        txs \in {<< >>,
                 <<Tx(0, << >>, <<Output(2, PlainScript),
                                    Output(0, CommitmentScript(7, Nonce32))>>, 0, 0, 0)>>}}

CheckCandidates ==
    FinalityCandidates \cup SizeCandidates \cup SigopsCandidates \cup ClaimCandidates
        \cup ScriptCandidates \cup WitnessCandidates

(***************************************************************************)
(* DataFile (hammersbald/src/datafile.rs).                                 *)
(* The data file stores envelopes in a paged file through a                *)
(* PagedFileAppender.  The paged file, the appender, the page layout and   *)
(* the payload format live in other files of the crate (pagedfile.rs,      *)
(* page.rs, pref.rs, format.rs); they are modelled from their contract.    *)
(* A PRef is a byte offset in the file; every page carries                 *)
(* PAGE_PAYLOAD_SIZE bytes of the envelope stream followed by a trailer.   *)
(* Bytes are numbers 0..255; a file, a page and a buffer are byte          *)
(* sequences.                                                              *)
(***************************************************************************)
\* Page size of the model (4096 in the crate), scaled down so that short
\* envelopes cross page boundaries.
PAGE_SIZE == 16

\* Bytes at the end of every page that do not belong to the envelope stream.
PageTrailerSize == 6

PAGE_PAYLOAD_SIZE == PAGE_SIZE - PageTrailerSize

\* Number of append calls in one run of the data file.
MaxAppends == 2

Min(a, b) == IF a <= b THEN a ELSE b

Zeros(n) == [i \in 1..n |-> 0]

OkValue(v) == [tag |-> "Ok", value |-> v]

\* PRef::this_page, PRef::in_page_pos, PRef::is_valid.  The invalid PRef is
\* the all-ones value, which is no position of the model.
this_page(pref) == pref - (pref % PAGE_SIZE)

in_page_pos(pref) == pref % PAGE_SIZE

is_valid(pref) == pref \in Nat

\* Page::new, Page::write.
NewPage == Zeros(PAGE_SIZE)

PageWrite(page, pos, bytes) ==
    [i \in 1..PAGE_SIZE |->
        IF pos < i /\ i <= pos + Len(bytes) THEN bytes[i - pos] ELSE page[i]]

\* The trailer of a page that goes to the file holds a position which the
\* data file never reads back; it is filled with a non-zero byte here.
PageSeal(page) ==
    [i \in 1..PAGE_SIZE |-> IF i > PAGE_PAYLOAD_SIZE THEN 255 ELSE page[i]]

\* PagedFile::read_page: the page that starts at pref, if the file holds it.
File_read_page(file, pref) ==
    IF pref + PAGE_SIZE <= Len(file)
    THEN Some(SubSeq(file, pref + 1, pref + PAGE_SIZE))
    ELSE None

\* PagedFile::update_page: the page that starts at pref is overwritten.
File_update_page(file, pref, page) ==
    [i \in 1..Len(file) |->
        IF pref < i /\ i <= pref + PAGE_SIZE THEN page[i - pref] ELSE file[i]]

\* PagedFileAppender::new
Appender_new(pos) == [pos |-> pos, page |-> None]

\* PagedFileAppender::position
Appender_position(appender) == appender.pos

\* PagedFileAppender::read_page: the page under construction is served from
\* memory, every other page from the file.
Appender_read_page(file, appender, pref) ==
    IF appender.page # None /\ this_page(appender.pos) = pref
    THEN appender.page
    ELSE File_read_page(file, pref)

\* PagedFileAppender::read: count bytes of the envelope stream starting at
\* pos, stepping over page trailers; returns the bytes and the position after
\* them.  Where no page exists the buffer keeps its zeros.
RECURSIVE Appender_read_loop(_, _, _, _, _)
Appender_read_loop(file, appender, pos, buf, count) ==
    IF count = 0
    THEN [pos |-> pos, buf |-> buf]
    ELSE LET page == Appender_read_page(file, appender, this_page(pos))
         IN  IF page = None
             THEN [pos |-> pos, buf |-> buf \o Zeros(count)]
             ELSE LET have == Min(PAGE_PAYLOAD_SIZE - in_page_pos(pos), count)
                      got  == SubSeq(page.value, in_page_pos(pos) + 1, in_page_pos(pos) + have)
                      next == pos + have
                      skip == IF in_page_pos(next) = PAGE_PAYLOAD_SIZE
                              THEN next + (PAGE_SIZE - PAGE_PAYLOAD_SIZE)
                              ELSE next
                  IN  Appender_read_loop(file, appender, skip, buf \o got, count - have)

Appender_read(file, appender, pos, count) ==
    Appender_read_loop(file, appender, pos, << >>, count)

\* PagedFileAppender::append: the bytes go to the page under construction; a
\* page that is full is appended to the file and the position steps over its
\* trailer.
RECURSIVE Appender_append(_, _, _)
Appender_append(file, appender, buf) ==
    IF buf = << >>
    THEN [file |-> file, appender |-> appender]
    ELSE LET page  == IF appender.page = None THEN NewPage ELSE appender.page.value
             space == Min(PAGE_PAYLOAD_SIZE - in_page_pos(appender.pos), Len(buf))
             wrote == PageWrite(page, in_page_pos(appender.pos), SubSeq(buf, 1, space))
             next  == appender.pos + space
             rest  == SubSeq(buf, space + 1, Len(buf))
         IN  IF in_page_pos(next) = PAGE_PAYLOAD_SIZE
             THEN Appender_append(file \o PageSeal(wrote),
                                  [pos |-> next + (PAGE_SIZE - PAGE_PAYLOAD_SIZE), page |-> None],
                                  rest)
             ELSE Appender_append(file, [pos |-> next, page |-> Some(wrote)], rest)

\* PagedFileAppender::update: the bytes overwrite the envelope stream from pos
\* on, in the page under construction or in the file.
RECURSIVE Appender_update(_, _, _, _)
Appender_update(file, appender, pos, buf) ==
    IF buf = << >>
    THEN [file |-> file, appender |-> appender]
    ELSE LET page == Appender_read_page(file, appender, this_page(pos))
             have == Min(PAGE_PAYLOAD_SIZE - in_page_pos(pos), Len(buf))
             next == pos + have
             skip == IF in_page_pos(next) = PAGE_PAYLOAD_SIZE
                     THEN next + (PAGE_SIZE - PAGE_PAYLOAD_SIZE)
                     ELSE next
             rest == SubSeq(buf, have + 1, Len(buf))
         IN  IF page = None
             THEN [file |-> file, appender |-> appender]
             ELSE LET wrote == PageWrite(page.value, in_page_pos(pos), SubSeq(buf, 1, have))
                  IN  IF appender.page # None /\ this_page(appender.pos) = this_page(pos)
                      THEN Appender_update(file, [appender EXCEPT !.page = Some(wrote)], skip, rest)
                      ELSE Appender_update(File_update_page(file, this_page(pos), wrote),
                                           appender, skip, rest)

\* PagedFileAppender::flush: a page under construction that holds bytes goes
\* to the file as it is and the position moves to the next page.
Appender_flush(file, appender) ==
    IF appender.page # None /\ in_page_pos(appender.pos) > 0
    THEN [file |-> file \o PageSeal(appender.page.value),
          appender |-> [pos |-> appender.pos + (PAGE_SIZE - in_page_pos(appender.pos)),
                        page |-> None]]
    ELSE [file |-> file, appender |-> [appender EXCEPT !.page = None]]

\* PagedFileAppender::truncate: the file is cut at new_len and the position
\* moves there.
Appender_truncate(file, appender, new_len) ==
    [file |-> SubSeq(file, 1, Min(new_len, Len(file))),
     appender |-> [pos |-> new_len, page |-> None]]

\* PagedFileAppender::len: the length of the file.
Appender_len(file, appender) == Len(file)

\* Payload format --------------------------------------------------------------
\* A payload is [variant |-> "Indexed", key, data], [variant |-> "Referred",
\* data] or [variant |-> "Link", links]; key, data and links are byte
\* sequences.
Indexed(key, data) == [variant |-> "Indexed", key |-> key, data |-> data]

Referred(data) == [variant |-> "Referred", data |-> data]

Link(links) == [variant |-> "Link", links |-> links]

\* Payload::serialize: a discriminator byte, then the variant.  An indexed
\* datum is the key length in one byte, the key and the data.
Payload_serialize(payload) ==
    CASE payload.variant = "Indexed" ->
             <<0, Len(payload.key) % 256>> \o payload.key \o payload.data
      [] payload.variant = "Referred" -> <<1>> \o payload.data
      [] payload.variant = "Link" -> <<2>> \o payload.links

\* Payload::deserialize
Payload_deserialize(slice) ==
    IF slice = << >> THEN Panic
    ELSE CASE slice[1] = 0 /\ Len(slice) >= 2 /\ Len(slice) >= 2 + slice[2] ->
                  OkValue(Indexed(SubSeq(slice, 3, 2 + slice[2]),
                                  SubSeq(slice, 3 + slice[2], Len(slice))))
           [] slice[1] = 0 /\ ~(Len(slice) >= 2 /\ Len(slice) >= 2 + slice[2]) -> Panic
           [] slice[1] = 1 -> OkValue(Referred(Tail(slice)))
           [] slice[1] = 2 -> OkValue(Link(Tail(slice)))
           [] OTHER -> Err("Corrupted")

\* BigEndian::write_u24, BigEndian::read_u24
write_u24(n) == <<(n \div 65536) % 256, (n \div 256) % 256, n % 256>>

read_u24(bytes) == bytes[1] * 65536 + bytes[2] * 256 + bytes[3]

\* Envelope::new, Envelope::from_payload, Envelope::payload,
\* Envelope::serialize, Envelope::deseralize
Envelope_new(payload_bytes) == [buffer |-> payload_bytes]

Envelope_from_payload(payload) == Envelope_new(Payload_serialize(payload))

Envelope_payload(envelope) == envelope.buffer

Envelope_serialize(envelope) ==
    write_u24(Len(envelope.buffer)) \o envelope.buffer

Envelope_deseralize(buf) == Envelope_new(buf)

\* DataFile ----------------------------------------------------------------------
\* Mutant of DataFile_new: the length of the file is not checked.
DataFile_new_Unchecked(file) ==
    IF Len(file) >= PAGE_SIZE
    THEN OkValue(Appender_new(Len(file)))
    ELSE OkValue(Appender_new(0))

\* DataFile::new
DataFile_new(file) ==
    LET file_len == Len(file)
    IN  IF file_len % PAGE_SIZE # 0
        THEN Err("Corrupted")
        ELSE IF file_len >= PAGE_SIZE
             THEN OkValue(Appender_new(file_len))
             ELSE OkValue(Appender_new(0))

\* DataFile::get_envelope
DataFile_get_envelope(file, appender, pref) ==
    LET head == Appender_read(file, appender, pref, 3)
        blen == read_u24(head.buf)
    IN  IF blen >= PAGE_PAYLOAD_SIZE
        THEN Envelope_deseralize(Appender_read(file, appender, head.pos, blen).buf)
        ELSE LET buf == Appender_read(file, appender, head.pos, blen).buf
                        \o Zeros(PAGE_PAYLOAD_SIZE - blen)
             IN  Envelope_deseralize(SubSeq(buf, 1, blen))

\* Mutant of AppendPayload: the position after the append is returned.
AppendPayload_ReturnsEnd(file, appender, payload) ==
    LET store == Envelope_serialize(Envelope_new(Payload_serialize(payload)))
        after == Appender_append(file, appender, store)
    IN  [file |-> after.file, appender |-> after.appender,
         ret |-> OkValue(Appender_position(after.appender))]

\* The body shared by append_link, append_data and append_referred: the
\* payload is serialized, wrapped in an envelope and appended; the position
\* before the append is returned.
AppendPayload(file, appender, payload) ==
    LET store == Envelope_serialize(Envelope_new(Payload_serialize(payload)))
        me    == Appender_position(appender)
        after == Appender_append(file, appender, store)
    IN  [file |-> after.file, appender |-> after.appender, ret |-> OkValue(me)]

\* DataFile::append_link
DataFile_append_link(file, appender, links) ==
    AppendPayload(file, appender, Link(links))

\* DataFile::append_data
DataFile_append_data(file, appender, key, data) ==
    AppendPayload(file, appender, Indexed(key, data))

\* DataFile::append_referred
DataFile_append_referred(file, appender, data) ==
    AppendPayload(file, appender, Referred(data))

\* Mutant of SetData_new_payload: a link is rewritten like referred data.
SetData_new_payload_LinkAsData(payload, data) ==
    CASE payload.variant = "Indexed" -> OkValue([payload EXCEPT !.data = data])
      [] payload.variant = "Referred" -> OkValue([payload EXCEPT !.data = data])
      [] OTHER -> OkValue(Referred(data))

\* The match of set_data: the data of an indexed or referred payload is
\* replaced; any other payload panics.
SetData_new_payload(payload, data) ==
    CASE payload.variant = "Indexed" -> OkValue([payload EXCEPT !.data = data])
      [] payload.variant = "Referred" -> OkValue([payload EXCEPT !.data = data])
      [] OTHER -> Panic

\* Mutant of SetData_length_differs: a shorter payload is let through.
SetData_length_differs_LongerOnly(envelope, new_envelope) ==
    Len(Envelope_payload(envelope)) < Len(Envelope_payload(new_envelope))

\* The length test of set_data.
SetData_length_differs(envelope, new_envelope) ==
    Len(Envelope_payload(envelope)) # Len(Envelope_payload(new_envelope))

\* Mutant of DataFile_set_data: the new envelope is appended, not written in place.
DataFile_set_data_Appends(file, appender, pref, data) ==
    LET envelope == DataFile_get_envelope(file, appender, pref)
        payload  == Payload_deserialize(Envelope_payload(envelope))
    IN  IF payload.tag # "Ok"
        THEN [file |-> file, appender |-> appender, ret |-> payload]
        ELSE LET new_payload == SetData_new_payload(payload.value, data)
             IN  IF new_payload.tag # "Ok"
                 THEN [file |-> file, appender |-> appender, ret |-> new_payload]
                 ELSE LET new_envelope == Envelope_from_payload(new_payload.value)
                      IN  IF SetData_length_differs(envelope, new_envelope)
                          THEN [file |-> file, appender |-> appender,
                                ret |-> Err("ValueTooLong")]
                          ELSE AppendPayload(file, appender, new_payload.value)

\* DataFile::set_data
DataFile_set_data(file, appender, pref, data) ==
    LET envelope == DataFile_get_envelope(file, appender, pref)
        payload  == Payload_deserialize(Envelope_payload(envelope))
    IN  IF payload.tag # "Ok"
        THEN [file |-> file, appender |-> appender, ret |-> payload]
        ELSE LET new_payload == SetData_new_payload(payload.value, data)
             IN  IF new_payload.tag # "Ok"
                 THEN [file |-> file, appender |-> appender, ret |-> new_payload]
                 ELSE LET new_envelope == Envelope_from_payload(new_payload.value)
                          store == Envelope_serialize(new_envelope)
                          after == Appender_update(file, appender, pref, store)
                      IN  IF SetData_length_differs(envelope, new_envelope)
                          THEN [file |-> file, appender |-> appender,
                                ret |-> Err("ValueTooLong")]
                          ELSE [file |-> after.file, appender |-> after.appender,
                                ret |-> OkValue(pref)]

\* DataFile::shutdown: the call goes to the appender, whose shutdown stops the
\* paged file behind it and leaves the bytes written and the position as
\* they are.
DataFile_shutdown(file, appender) == [file |-> file, appender |-> appender]

\* DataFile::truncate, DataFile::flush, DataFile::sync, DataFile::len
DataFile_truncate(file, appender, pref) == Appender_truncate(file, appender, pref)

DataFile_flush(file, appender) == Appender_flush(file, appender)

DataFile_sync(file, appender) == [file |-> file, appender |-> appender]

DataFile_len(file, appender) == Appender_len(file, appender)

\* EnvelopeIterator::new
EnvelopeIterator_new == [pos |-> 0]

\* Mutant of EnvelopeIterator_next: the item carries the position after the
\* length header instead of the start of the envelope.
EnvelopeIterator_next_YieldsBodyPos(file, appender, iter) ==
    IF is_valid(iter.pos)
    THEN LET start == iter.pos
             head  == Appender_read(file, appender, start, 3)
             length == read_u24(head.buf)
         IN  IF length > 0
             THEN LET body == Appender_read(file, appender, head.pos, length)
                  IN  [iter |-> [pos |-> body.pos],
                       item |-> Some(<<head.pos, Envelope_deseralize(body.buf)>>)]
             ELSE [iter |-> iter, item |-> None]
    ELSE [iter |-> iter, item |-> None]

\* Mutant of EnvelopeIterator_next: at a zero length header before the write
\* position the iterator moves on to the next page, so that a later call
\* resumes there.
EnvelopeIterator_next_ResumesAtNextPage(file, appender, iter) ==
    IF is_valid(iter.pos)
    THEN LET start == iter.pos
             head  == Appender_read(file, appender, start, 3)
             length == read_u24(head.buf)
         IN  IF length > 0
             THEN LET body == Appender_read(file, appender, head.pos, length)
                  IN  [iter |-> [pos |-> body.pos],
                       item |-> Some(<<start, Envelope_deseralize(body.buf)>>)]
             ELSE IF this_page(start) + PAGE_SIZE <= appender.pos
             THEN [iter |-> [pos |-> this_page(start) + PAGE_SIZE], item |-> None]
             ELSE [iter |-> iter, item |-> None]
    ELSE [iter |-> iter, item |-> None]

\* EnvelopeIterator::next
EnvelopeIterator_next(file, appender, iter) ==
    IF is_valid(iter.pos)
    THEN LET start == iter.pos
             head  == Appender_read(file, appender, start, 3)
             length == read_u24(head.buf)
         IN  IF length > 0
             THEN LET body == Appender_read(file, appender, head.pos, length)
                  IN  [iter |-> [pos |-> body.pos],
                       item |-> Some(<<start, Envelope_deseralize(body.buf)>>)]
             ELSE [iter |-> iter, item |-> None]
    ELSE [iter |-> iter, item |-> None]

\* DataFile::envelopes, collected: the items next() yields until it returns None.
RECURSIVE CollectEnvelopes(_, _, _)
CollectEnvelopes(file, appender, iter) ==
    LET step == EnvelopeIterator_next(file, appender, iter)
    IN  IF step.item = None
        THEN << >>
        ELSE <<step.item.value>> \o CollectEnvelopes(file, appender, step.iter)

DataFile_envelopes(file, appender) ==
    CollectEnvelopes(file, appender, EnvelopeIterator_new)

\* Inputs of the data file -------------------------------------------------------
\* The data of the appends: "hi" and "hello".
DataValues == {<<104, 105>>, <<104, 101, 108, 108, 111>>}

\* The data set_data is called with: "hi", "hello" and "world", so that every
\* stored value meets new data of its own and of another length.
NewDataValues == DataValues \cup {<<119, 111, 114, 108, 100>>}

\* "k"
KeyValues == {<<107>>}

\* The serialized content of a link; the data file does not look into it.  It
\* is as long as "hello", so that set_data meets a link with data of the same
\* and of another length.
LinkValues == {<<0, 0, 0, 1, 16>>}

\* A file left by an earlier run: one envelope, flushed.
FlushedFile ==
    LET one == AppendPayload(<< >>, Appender_new(0), Referred(<<119>>))
    IN  Appender_flush(one.file, one.appender).file

\* The files a data file is opened on: a new one, one left by an earlier run,
\* and two whose last page was not written completely.
InitialFiles ==
    {<< >>, FlushedFile, SubSeq(FlushedFile, 1, PAGE_SIZE - 1), SubSeq(FlushedFile, 1, 5)}

\* The lengths truncate is called with: none, one byte, one page.
TruncateLengths == {0, 1, PAGE_SIZE}

\* No envelope of the appends as lies across the length new_len.
AtEnvelopeBoundary(as, new_len) ==
    \A i \in DOMAIN as : as[i].live => (as[i].end <= new_len \/ new_len <= as[i].pref)

VARIABLES
    file,             \* the bytes of the paged file behind the data file
    datafile,         \* None, or the result of DataFile::new: Ok(appender) or the error
    fcall,            \* the last of new, envelopes and the methods on &mut self that was
                      \* called, with its arguments
    fret,             \* the value it returned
    appended,         \* the appends since the file was opened: [pref, payload, end, live];
                      \* live is FALSE once truncate has cut the envelope off
    pristine,         \* TRUE while the file was opened empty and only appended to
    shut,             \* TRUE once shutdown was called on the data file
    iter,             \* None, or the EnvelopeIterator that borrows the data file
    item              \* what its last next() returned, Pending before the first call

fileVars == <<file, datafile, fcall, fret, appended, pristine, shut, iter, item>>

VARIABLES
    candidate,        \* the arguments of BlockAcceptor::new, or None
    verdict,          \* the result of BlockAcceptor::check, or Pending
    subcheck          \* Pending, or the one check of the six that was called on its
                      \* own and what it returned: [name, result]

poolVars == <<prev, orphaned_blocks, unknown_blocks, call, ret, panicked, traversal>>

acceptorVars == <<candidate, verdict, subcheck>>

vars == <<poolVars, acceptorVars, fileVars>>

(***************************************************************************)
(* The acceptor as a state machine: a candidate is given, check() runs.    *)
(***************************************************************************)
InitAcceptor ==
    /\ candidate \in AcceptorCandidates
    /\ verdict = Pending
    /\ subcheck = Pending
    /\ prev = [h \in BlockHashes |-> h - 1]
    /\ orphaned_blocks = new.orphaned_blocks
    /\ unknown_blocks = new.unknown_blocks
    /\ call = [op |-> "new", arg |-> 0]
    /\ ret = << >>
    /\ panicked = FALSE
    /\ traversal = Pending
    /\ file = << >>
    /\ datafile = None
    /\ fcall = [op |-> "none"]
    /\ fret = None
    /\ appended = << >>
    /\ pristine = TRUE
    /\ shut = FALSE
    /\ iter = None
    /\ item = Pending

AcceptorCheck ==
    /\ verdict = Pending
    /\ candidate # None
    /\ verdict' = BlockAcceptor_check(candidate)
    /\ UNCHANGED <<poolVars, candidate, subcheck, fileVars>>

NextAcceptor == AcceptorCheck

SpecAcceptor == InitAcceptor /\ [][NextAcceptor]_vars

(***************************************************************************)
(* The six checks called one by one, the way the module's own test calls   *)
(* BlockCoinbaseScript::check: a candidate is given, one check runs.       *)
(***************************************************************************)
InitChecks ==
    /\ candidate \in CheckCandidates
    /\ verdict = Pending
    /\ subcheck = Pending
    /\ prev = [h \in BlockHashes |-> h - 1]
    /\ orphaned_blocks = new.orphaned_blocks
    /\ unknown_blocks = new.unknown_blocks
    /\ call = [op |-> "new", arg |-> 0]
    /\ ret = << >>
    /\ panicked = FALSE
    /\ traversal = Pending
    /\ file = << >>
    /\ datafile = None
    /\ fcall = [op |-> "none"]
    /\ fret = None
    /\ appended = << >>
    /\ pristine = TRUE
    /\ shut = FALSE
    /\ iter = None
    /\ item = Pending

\* The common effect of the six actions.
SubChecked(name, result) ==
    /\ subcheck = Pending
    /\ subcheck' = [name |-> name, result |-> result]
    /\ UNCHANGED <<candidate, verdict, poolVars, fileVars>>

CheckFinality == SubChecked("finality", BlockFinality_check(candidate))

CheckSerializedSize == SubChecked("serialized_size", BlockSerializedSize_check(candidate))

CheckSigops == SubChecked("sigops", BlockSigops_check(candidate))

CheckCoinbaseClaim == SubChecked("coinbase_claim", BlockCoinbaseClaim_check(candidate))

CheckCoinbaseScript == SubChecked("coinbase_script", BlockCoinbaseScript_check(candidate))

CheckWitness == SubChecked("witness", BlockWitness_check(candidate))

NextChecks ==
    \/ CheckFinality
    \/ CheckSerializedSize
    \/ CheckSigops
    \/ CheckCoinbaseClaim
    \/ CheckCoinbaseScript
    \/ CheckWitness

SpecChecks == InitChecks /\ [][NextChecks]_vars

(***************************************************************************)
(* The pool as a state machine: one action per public method.              *)
(***************************************************************************)
InitPool ==
    /\ prev \in Chains
    /\ orphaned_blocks = new.orphaned_blocks
    /\ unknown_blocks = new.unknown_blocks
    /\ call = [op |-> "new", arg |-> 0]
    /\ ret = << >>
    /\ panicked = FALSE
    /\ traversal = Pending
    /\ file = << >>
    /\ datafile = None
    /\ fcall = [op |-> "none"]
    /\ fret = None
    /\ appended = << >>
    /\ pristine = TRUE
    /\ shut = FALSE
    /\ iter = None
    /\ item = Pending
    /\ candidate = None
    /\ verdict = Pending
    /\ subcheck = Pending

InsertOrphanedBlock ==
    \E h \in BlockHashes :
        /\ ~panicked
        /\ orphaned_blocks' = insert_orphaned_block(orphaned_blocks, IndexedBlock(h, prev[h]))
        /\ call' = [op |-> "insert_orphaned_block", arg |-> h]
        /\ ret' = << >>
        /\ UNCHANGED <<prev, unknown_blocks, panicked, traversal, acceptorVars, fileVars>>

InsertUnknownBlock ==
    \E h \in BlockHashes :
        /\ ~panicked
        /\ LET r == insert_unknown_block(orphaned_blocks, unknown_blocks, IndexedBlock(h, prev[h]))
           IN  /\ orphaned_blocks' = r.orphaned_blocks
               /\ unknown_blocks' = r.unknown_blocks
               /\ panicked' = r.panicked
        /\ call' = [op |-> "insert_unknown_block", arg |-> h]
        /\ ret' = << >>
        /\ UNCHANGED <<prev, traversal, acceptorVars, fileVars>>

RemoveKnownBlocks ==
    \E ord \in TableOrders(orphaned_blocks, UNION {DOMAIN orphaned_blocks[p] : p \in DOMAIN orphaned_blocks}) :
        LET r == remove_known_blocks(orphaned_blocks, unknown_blocks, ord)
        IN  /\ ~panicked
            /\ orphaned_blocks' = r.orphaned_blocks
            /\ unknown_blocks' = r.unknown_blocks
            /\ call' = [op |-> "remove_known_blocks", arg |-> 0]
            /\ ret' = r.removed
            /\ UNCHANGED <<prev, panicked, traversal, acceptorVars, fileVars>>

RemoveBlocksForParent ==
    \E hash \in Hashes, ord \in TableOrders(orphaned_blocks, {}) :
        LET r == remove_blocks_for_parent(orphaned_blocks, unknown_blocks, hash, ord.buckets)
        IN  /\ ~panicked
            /\ orphaned_blocks' = r.orphaned_blocks
            /\ unknown_blocks' = r.unknown_blocks
            /\ call' = [op |-> "remove_blocks_for_parent", arg |-> hash]
            /\ ret' = r.removed
            /\ UNCHANGED <<prev, panicked, traversal, acceptorVars, fileVars>>

RemoveBlocks ==
    \E hashes \in SUBSET Hashes :
      \E ord \in TableOrders(orphaned_blocks, hashes) :
        LET r == remove_blocks(orphaned_blocks, unknown_blocks, hashes, ord)
        IN  /\ ~panicked
            /\ orphaned_blocks' = r.orphaned_blocks
            /\ unknown_blocks' = r.unknown_blocks
            /\ call' = [op |-> "remove_blocks", arg |-> hashes]
            /\ ret' = r.removed
            /\ UNCHANGED <<prev, panicked, traversal, acceptorVars, fileVars>>

NextPool ==
    \/ InsertOrphanedBlock
    \/ InsertUnknownBlock
    \/ RemoveKnownBlocks
    \/ RemoveBlocksForParent
    \/ RemoveBlocks

SpecPool == InitPool /\ [][NextPool]_vars

(***************************************************************************)
(* remove_blocks_for_parent followed one loop iteration at a time.         *)
(*                                                                         *)
(* The pool does not check that a block's hash is the digest of its header *)
(* so the blocks it is given may name any hash as their parent: themselves *)
(* or each other in a cycle.  The pool is filled through its insert        *)
(* methods with every such set of blocks; then remove_blocks_for_parent is *)
(* called on it, again and again, with every start hash.                   *)
(***************************************************************************)
InitTraversal ==
    /\ prev \in [BlockHashes -> Hashes]
    /\ \E pooled \in SUBSET BlockHashes, as_unknown \in BOOLEAN :
        LET RECURSIVE Fill(_, _)
            Fill(hs, pool) ==
                IF hs = << >>
                THEN pool
                ELSE LET block == IndexedBlock(Head(hs), prev[Head(hs)])
                     IN  Fill(Tail(hs),
                              IF as_unknown
                              THEN insert_unknown_block(pool.orphaned_blocks,
                                                        pool.unknown_blocks, block)
                              ELSE [pool EXCEPT !.orphaned_blocks =
                                        insert_orphaned_block(pool.orphaned_blocks, block)])
            filled == Fill(IterOrder(pooled, Ascending), new)
        IN  /\ \A h \in BlockHashes \ pooled : prev[h] = 0
            /\ as_unknown => pooled # {}
            /\ orphaned_blocks = filled.orphaned_blocks
            /\ unknown_blocks = filled.unknown_blocks
    /\ call = [op |-> "new", arg |-> 0]
    /\ ret = << >>
    /\ panicked = FALSE
    /\ traversal = Pending
    /\ file = << >>
    /\ datafile = None
    /\ fcall = [op |-> "none"]
    /\ fret = None
    /\ appended = << >>
    /\ pristine = TRUE
    /\ shut = FALSE
    /\ iter = None
    /\ item = Pending
    /\ candidate = None
    /\ verdict = Pending
    /\ subcheck = Pending

\* The call and the lines before the loop: queue holds the start hash and
\* removed is empty.  iterations counts the executions of the loop body.
TraversalBegin ==
    \E hash \in Hashes :
        /\ IF traversal = Pending THEN TRUE ELSE traversal.returned
        /\ traversal' = [queue |-> <<hash>>, removed |-> << >>,
                         iterations |-> 0, returned |-> FALSE]
        /\ call' = [op |-> "remove_blocks_for_parent", arg |-> hash]
        /\ ret' = << >>
        /\ UNCHANGED <<prev, orphaned_blocks, unknown_blocks, panicked, acceptorVars, fileVars>>

\* pop_front returned a hash: one execution of the loop body, with the bucket
\* of that hash enumerating its keys in any order.
TraversalStep ==
    /\ traversal # Pending
    /\ IF traversal = Pending THEN FALSE
       ELSE /\ ~traversal.returned
            /\ traversal.queue # << >>
            /\ \E ord \in TableOrders(orphaned_blocks, {}) :
                LET s == RemoveLoopBody(orphaned_blocks, unknown_blocks,
                                        traversal.queue, traversal.removed, ord.buckets)
                IN  /\ orphaned_blocks' = s.orphaned_blocks
                    /\ unknown_blocks' = s.unknown_blocks
                    /\ traversal' = [traversal EXCEPT !.queue = s.queue,
                                                      !.removed = s.removed,
                                                      !.iterations = @ + 1]
    /\ UNCHANGED <<prev, call, ret, panicked, acceptorVars, fileVars>>

\* pop_front returned None: the loop ends and removed is returned.
TraversalReturn ==
    /\ traversal # Pending
    /\ ~traversal.returned
    /\ traversal.queue = << >>
    /\ traversal' = [traversal EXCEPT !.returned = TRUE]
    /\ ret' = traversal.removed
    /\ UNCHANGED <<prev, orphaned_blocks, unknown_blocks, call, panicked, acceptorVars, fileVars>>

NextTraversal ==
    \/ TraversalBegin
    \/ TraversalStep
    \/ TraversalReturn

\* The call runs on one thread that nothing suspends: a loop iteration or
\* the return that can be taken is taken.
SpecTraversal ==
    /\ InitTraversal
    /\ [][NextTraversal]_vars
    /\ WF_vars(TraversalStep)
    /\ WF_vars(TraversalReturn)

(***************************************************************************)
(* The data file as a state machine: DataFile::new, then one action per    *)
(* public method.  A panic ends the run.                                   *)
(***************************************************************************)
InitFile ==
    /\ file \in InitialFiles
    /\ datafile = None
    /\ fcall = [op |-> "none"]
    /\ fret = None
    /\ appended = << >>
    /\ pristine = TRUE
    /\ shut = FALSE
    /\ iter = None
    /\ item = Pending
    /\ prev = [h \in BlockHashes |-> h - 1]
    /\ orphaned_blocks = new.orphaned_blocks
    /\ unknown_blocks = new.unknown_blocks
    /\ call = [op |-> "new", arg |-> 0]
    /\ ret = << >>
    /\ panicked = FALSE
    /\ traversal = Pending
    /\ candidate = None
    /\ verdict = Pending
    /\ subcheck = Pending

\* The data file is open, the last call did not panic and the file has whole
\* pages.  A file cut inside a page is not followed further: what is read
\* from it is no longer the envelope stream.
Usable ==
    /\ datafile # None
    /\ datafile.tag = "Ok"
    /\ fret # Panic
    /\ Len(file) % PAGE_SIZE = 0

Appender == datafile.value

FileNew ==
    /\ datafile = None
    /\ datafile' = DataFile_new(file)
    /\ fcall' = [op |-> "new", len |-> Len(file)]
    /\ fret' = datafile'
    /\ pristine' = (file = << >>)
    /\ UNCHANGED <<file, appended, shut, iter, item, poolVars, acceptorVars>>

\* The common effect of the three append methods.
Appended(op, payload, r) ==
    /\ file' = r.file
    /\ datafile' = OkValue(r.appender)
    /\ fcall' = [op |-> op, payload |-> payload]
    /\ fret' = r.ret
    /\ appended' = Append(appended, [pref |-> Appender_position(Appender),
                                     payload |-> payload,
                                     end |-> Appender_position(r.appender),
                                     live |-> TRUE])
    /\ UNCHANGED <<pristine, shut, iter, item, poolVars, acceptorVars>>

FileAppendLink ==
    \E links \in LinkValues :
        /\ Usable
        /\ iter = None
        /\ Len(appended) < MaxAppends
        /\ Appended("append_link", Link(links), DataFile_append_link(file, Appender, links))

FileAppendData ==
    \E key \in KeyValues, data \in DataValues :
        /\ Usable
        /\ iter = None
        /\ Len(appended) < MaxAppends
        /\ Appended("append_data", Indexed(key, data),
                    DataFile_append_data(file, Appender, key, data))

FileAppendReferred ==
    \E data \in DataValues :
        /\ Usable
        /\ iter = None
        /\ Len(appended) < MaxAppends
        /\ Appended("append_referred", Referred(data),
                    DataFile_append_referred(file, Appender, data))

FileSetData ==
    \E i \in DOMAIN appended, data \in NewDataValues :
        /\ Usable
        /\ iter = None
        /\ appended[i].live
        /\ LET r == DataFile_set_data(file, Appender, appended[i].pref, data)
           IN  /\ file' = r.file
               /\ datafile' = OkValue(r.appender)
               /\ fcall' = [op |-> "set_data", pref |-> appended[i].pref, data |-> data]
               /\ fret' = r.ret
               /\ pristine' = (pristine /\ r.ret.tag # "Ok")
        /\ UNCHANGED <<appended, shut, iter, item, poolVars, acceptorVars>>

\* get_envelope, sync and len take &self: they return a value computed from
\* the file and the appender and change neither.
FileGetEnvelope ==
    \E i \in DOMAIN appended :
        /\ Usable
        /\ appended[i].live
        /\ DataFile_get_envelope(file, Appender, appended[i].pref) \in [buffer : Seq(0..255)]
        /\ UNCHANGED <<fileVars, poolVars, acceptorVars>>

\* envelopes() hands out an iterator that borrows the data file until it is
\* dropped.
FileEnvelopes ==
    /\ Usable
    /\ iter = None
    /\ iter' = Some(EnvelopeIterator_new)
    /\ item' = Pending
    /\ fcall' = [op |-> "envelopes"]
    /\ fret' = iter'
    /\ UNCHANGED <<file, datafile, appended, pristine, shut, poolVars, acceptorVars>>

\* One call of next() on the iterator.
IteratorNext ==
    /\ Usable
    /\ iter # None
    /\ LET step == EnvelopeIterator_next(file, Appender, iter.value)
       IN  /\ iter' = Some(step.iter)
           /\ item' = step.item
    /\ UNCHANGED <<file, datafile, fcall, fret, appended, pristine, shut, poolVars, acceptorVars>>

\* The iterator goes out of scope.
IteratorDrop ==
    /\ iter # None
    /\ iter' = None
    /\ item' = Pending
    /\ UNCHANGED <<file, datafile, fcall, fret, appended, pristine, shut, poolVars, acceptorVars>>

\* truncate is called with a length inside the file that cuts no envelope
\* in two, or with the length 1, which cuts the first page.  The appends
\* whose envelope lies before new_len stay live.
FileTruncate ==
    \E new_len \in TruncateLengths :
        /\ Usable
        /\ iter = None
        /\ new_len <= Len(file)
        /\ new_len % PAGE_SIZE = 0 => AtEnvelopeBoundary(appended, new_len)
        /\ LET r == DataFile_truncate(file, Appender, new_len)
           IN  /\ file' = r.file
               /\ datafile' = OkValue(r.appender)
        /\ fcall' = [op |-> "truncate", pref |-> new_len]
        /\ fret' = Ok
        /\ appended' = [i \in DOMAIN appended |->
                            IF appended[i].live /\ appended[i].end <= new_len
                            THEN appended[i]
                            ELSE [live |-> FALSE]]
        /\ pristine' = FALSE
        /\ UNCHANGED <<shut, iter, item, poolVars, acceptorVars>>

\* shutdown takes &mut self and returns (): the data file stays a value its
\* owner can go on calling.
FileShutdown ==
    /\ Usable
    /\ iter = None
    /\ LET r == DataFile_shutdown(file, Appender)
       IN  /\ file' = r.file
           /\ datafile' = OkValue(r.appender)
    /\ fcall' = [op |-> "shutdown"]
    /\ fret' = << >>
    /\ shut' = TRUE
    /\ UNCHANGED <<appended, pristine, iter, item, poolVars, acceptorVars>>

FileFlush ==
    /\ Usable
    /\ iter = None
    /\ LET r == DataFile_flush(file, Appender)
       IN  /\ file' = r.file
           /\ datafile' = OkValue(r.appender)
    /\ fcall' = [op |-> "flush"]
    /\ fret' = Ok
    /\ pristine' = FALSE
    /\ UNCHANGED <<appended, shut, iter, item, poolVars, acceptorVars>>

FileSync ==
    /\ Usable
    /\ LET r == DataFile_sync(file, Appender)
       IN  /\ file' = r.file
           /\ datafile' = OkValue(r.appender)
    /\ UNCHANGED <<fcall, fret, appended, pristine, shut, iter, item, poolVars, acceptorVars>>

FileLen ==
    /\ Usable
    /\ DataFile_len(file, Appender) \in Nat
    /\ UNCHANGED <<fileVars, poolVars, acceptorVars>>

NextFile ==
    \/ FileNew
    \/ FileAppendLink
    \/ FileAppendData
    \/ FileAppendReferred
    \/ FileSetData
    \/ FileGetEnvelope
    \/ FileEnvelopes
    \/ IteratorNext
    \/ IteratorDrop
    \/ FileTruncate
    \/ FileShutdown
    \/ FileFlush
    \/ FileSync
    \/ FileLen

SpecFile == InitFile /\ [][NextFile]_vars

(***************************************************************************)
(* Vocabulary of the acceptor properties.                                  *)
(***************************************************************************)
Checked == verdict # Pending

SubCheck(c, name) ==
    CASE name = "finality"        -> BlockFinality_check(c)
      [] name = "serialized_size" -> BlockSerializedSize_check(c)
      [] name = "sigops"          -> BlockSigops_check(c)
      [] name = "coinbase_claim"  -> BlockCoinbaseClaim_check(c)
      [] name = "coinbase_script" -> BlockCoinbaseScript_check(c)
      [] name = "witness"         -> BlockWitness_check(c)

\* The verdict is the error of the first sub-check of order that fails, Ok if none does.
FirstFailureIn(order) ==
    LET failing == {i \in DOMAIN order : SubCheck(candidate, order[i]) # Ok}
    IN  IF failing = {}
        THEN verdict = Ok
        ELSE verdict = SubCheck(candidate, order[CHOOSE i \in failing : \A j \in failing : i <= j])

SizeAndSigopsFail ==
    /\ BlockFinality_check(candidate) = Ok
    /\ BlockSerializedSize_check(candidate) # Ok
    /\ BlockSigops_check(candidate) # Ok

(***************************************************************************)
(* C1 as stated.  check() reports the first failure in the order finality, *)
(* serialized size, sigops, coinbase claim, coinbase script, witness; a    *)
(* block over both the size/weight limit and a sigops limit is rejected    *)
(* with Size or Weight.                                                    *)
(***************************************************************************)
C1_SizeBeforeSigops ==
    Checked =>
        /\ FirstFailureIn(<<"finality", "serialized_size", "sigops",
                            "coinbase_claim", "coinbase_script", "witness">>)
        /\ (SizeAndSigopsFail => verdict.tag \in {"Size", "Weight"})

(***************************************************************************)
(* C1 as amended.  check() reports the first failure in the order          *)
(* finality, sigops, serialized size, coinbase claim, coinbase script,     *)
(* witness (Ok only if all six pass); a block over both the size/weight    *)
(* limit and a sigops limit is rejected with MaximumSigops or              *)
(* MaximumSigopsCost.                                                      *)
(***************************************************************************)
C1_SigopsBeforeSize ==
    Checked =>
        /\ FirstFailureIn(<<"finality", "sigops", "serialized_size",
                            "coinbase_claim", "coinbase_script", "witness">>)
        /\ (SizeAndSigopsFail => verdict.tag \in {"MaximumSigops", "MaximumSigopsCost"})

\* A final block over the weight limit and over the sigops cost limit was checked.
C1_Witness ==
    /\ Checked
    /\ SizeAndSigopsFail
    /\ BlockSerializedSize_check(candidate) = Err("Weight")
    /\ verdict = Err("MaximumSigopsCost")

(***************************************************************************)
(* Vocabulary of the pool properties.                                      *)
(***************************************************************************)
\* Hashes of the blocks stored in the pool ob.
PoolHashes(ob) == UNION {DOMAIN ob[p] : p \in DOMAIN ob}

\* The buckets of ob that store a block under hash h.
BucketsOf(ob, h) == {p \in DOMAIN ob : h \in DOMAIN ob[p]}

\* The blocks stored in ob.
PoolBlocks(ob) == UNION {{ob[p][h] : h \in DOMAIN ob[p]} : p \in DOMAIN ob}

\* Closure of S under "a pooled block whose previous_header_hash is in roots or in S".
RECURSIVE DescendantsFrom(_, _, _)
DescendantsFrom(ob, roots, S) ==
    LET T == S \cup {b.hash : b \in {c \in PoolBlocks(ob) : c.previous_header_hash \in roots \cup S}}
    IN  IF T = S THEN S ELSE DescendantsFrom(ob, roots, T)

\* Hashes of the pooled blocks that descend from a hash of roots through
\* previous_header_hash links (children, grandchildren, ...).
Descendants(ob, roots) == DescendantsFrom(ob, roots, {})

IsRemoval == call.op \in {"remove_known_blocks", "remove_blocks_for_parent", "remove_blocks"}

(***************************************************************************)
(* C2.  After any sequence of pool operations every hash of unknown_blocks *)
(* is the key of a block stored in exactly one bucket of orphaned_blocks.  *)
(***************************************************************************)
C2_UnknownHasItsBlock ==
    \A h \in SeqToSet(unknown_blocks) :
        /\ Cardinality(BucketsOf(orphaned_blocks, h)) = 1
        /\ \A p \in BucketsOf(orphaned_blocks, h) : orphaned_blocks[p][h].hash = h

\* A removal took blocks out and an unknown block is still pooled.
C2_Witness ==
    /\ IsRemoval
    /\ Len(ret) > 0
    /\ unknown_blocks # << >>
    /\ PoolHashes(orphaned_blocks) # SeqToSet(unknown_blocks)

(***************************************************************************)
(* C3.  orphaned_blocks never holds an empty bucket.                       *)
(***************************************************************************)
C3_NoEmptyBucket ==
    \A p \in DOMAIN orphaned_blocks : DOMAIN orphaned_blocks[p] # {}

\* remove_blocks took the last block out of a bucket while another bucket stays.
C3_Witness ==
    /\ call.op = "remove_blocks"
    /\ \E i \in DOMAIN ret :
        /\ ret[i] \in call.arg
        /\ prev[ret[i]] \notin DOMAIN orphaned_blocks
        /\ prev[ret[i]] \notin call.arg
    /\ orphaned_blocks # EmptyMap

(***************************************************************************)
(* C4.  remove_blocks_for_parent(h) returns the blocks in breadth-first    *)
(* order: the parent of a returned block is h or the hash of a block       *)
(* returned earlier, and the children of h precede its grandchildren.      *)
(***************************************************************************)
IsChildOfArg(i) == ret[i].previous_header_hash = call.arg

IsGrandchildOfArg(i) ==
    \E k \in DOMAIN ret : IsChildOfArg(k) /\ ret[i].previous_header_hash = ret[k].hash

C4_BreadthFirstOrder ==
    call.op = "remove_blocks_for_parent" =>
        /\ \A i \in DOMAIN ret :
            \/ IsChildOfArg(i)
            \/ \E j \in 1..(i - 1) : ret[j].hash = ret[i].previous_header_hash
        /\ \A i, j \in DOMAIN ret : IsChildOfArg(i) /\ IsGrandchildOfArg(j) => i < j

\* Two children of h and a grandchild were returned.
C4_Witness ==
    /\ call.op = "remove_blocks_for_parent"
    /\ \E i, j, k \in DOMAIN ret :
        /\ i # j
        /\ IsChildOfArg(i)
        /\ IsChildOfArg(j)
        /\ IsGrandchildOfArg(k)

(***************************************************************************)
(* C5.  remove_blocks_for_parent(h) returns, each exactly once, precisely  *)
(* the pooled descendants of h; afterwards none of them is in              *)
(* orphaned_blocks or unknown_blocks, and the pool is empty when every     *)
(* pooled block descended from h.                                          *)
(***************************************************************************)
C5_Step ==
    call'.op = "remove_blocks_for_parent" =>
        LET D == Descendants(orphaned_blocks, {call'.arg})
        IN  /\ {ret'[i] : i \in DOMAIN ret'} = {b \in PoolBlocks(orphaned_blocks) : b.hash \in D}
            /\ Len(ret') = Cardinality(D)
            /\ call'.arg \notin {ret'[i].hash : i \in DOMAIN ret'}
            /\ PoolHashes(orphaned_blocks') \cap D = {}
            /\ SeqToSet(unknown_blocks') \cap D = {}
            /\ (PoolHashes(orphaned_blocks) = D => len(orphaned_blocks') = 0)

\* C5: every remove_blocks_for_parent step returns exactly the pooled descendants of its argument and removes them.
C5_RemovesExactlyDescendants == [][C5_Step]_vars

\* A child and a grandchild, one of them unknown before, were returned while
\* a block that does not descend from h stays in the pool.
C5_Witness ==
    /\ call.op = "remove_blocks_for_parent"
    /\ Len(ret) >= 2
    /\ \E i \in DOMAIN ret : ~IsChildOfArg(i)
    /\ orphaned_blocks # EmptyMap
    /\ unknown_blocks # << >>

(***************************************************************************)
(* C6.  The list returned by remove_known_blocks is exactly the set of     *)
(* hashes of the blocks the call removed from the pool.                    *)
(***************************************************************************)
C6_Step ==
    call'.op = "remove_known_blocks" =>
        SeqToSet(ret') = PoolHashes(orphaned_blocks) \ PoolHashes(orphaned_blocks')

\* C6: every remove_known_blocks step returns exactly the hashes it removed from the pool.
C6_ReturnsWhatItRemoved == [][C6_Step]_vars

(***************************************************************************)
(* C7.  remove_known_blocks removes the blocks that are not unknown and    *)
(* only those: the pool then holds exactly the blocks that were unknown,   *)
(* and unknown_blocks is unchanged.                                        *)
(***************************************************************************)
C7_Step ==
    call'.op = "remove_known_blocks" =>
        /\ PoolHashes(orphaned_blocks') = SeqToSet(unknown_blocks)
        /\ unknown_blocks' = unknown_blocks

\* C7: every remove_known_blocks step leaves exactly the unknown blocks and leaves unknown_blocks unchanged.
C7_RemovesOnlyKnown == [][C7_Step]_vars

(***************************************************************************)
(* C8.  remove_blocks(hashes) returns the input hashes that were pooled    *)
(* together with the hashes of all pooled descendants of an input hash;    *)
(* afterwards none of them is in orphaned_blocks or unknown_blocks and     *)
(* every other block is still pooled.                                      *)
(***************************************************************************)
C8_Step ==
    call'.op = "remove_blocks" =>
        LET hashes == call'.arg
            gone   == (hashes \cap PoolHashes(orphaned_blocks))
                          \cup Descendants(orphaned_blocks, hashes)
        IN  /\ SeqToSet(ret') = gone
            /\ PoolHashes(orphaned_blocks') \cap (hashes \cup gone) = {}
            /\ SeqToSet(unknown_blocks') \cap (hashes \cup gone) = {}
            /\ PoolBlocks(orphaned_blocks') = {b \in PoolBlocks(orphaned_blocks) : b.hash \notin gone}

\* C8: every remove_blocks step returns and removes the pooled input hashes and all their pooled descendants, and nothing else.
C8_RemoveBlocksCascade == [][C8_Step]_vars

\* An input hash and a descendant that is not an input hash were returned, and
\* another block stays.
C8_Witness ==
    /\ call.op = "remove_blocks"
    /\ \E i, j \in DOMAIN ret :
        /\ ret[i] \in call.arg
        /\ ret[j] \notin call.arg
        /\ prev[ret[j]] = ret[i]
    /\ orphaned_blocks # EmptyMap

(***************************************************************************)
(* C9.  len() is the number of parent buckets: the number of distinct      *)
(* previous_header_hash values among the pooled blocks.                    *)
(***************************************************************************)
C9_LenCountsParents ==
    len(orphaned_blocks) =
        Cardinality({b.previous_header_hash : b \in PoolBlocks(orphaned_blocks)})

\* A removal left two blocks under one parent: len() is 1, the pool holds 2.
C9_Witness ==
    /\ IsRemoval
    /\ Len(ret) > 0
    /\ len(orphaned_blocks) = 1
    /\ Cardinality(PoolBlocks(orphaned_blocks)) = 2

(***************************************************************************)
(* C10.  len() is the total number of blocks held in the pool.             *)
(***************************************************************************)
C10_LenCountsBlocks ==
    len(orphaned_blocks) = Cardinality(PoolBlocks(orphaned_blocks))

(***************************************************************************)
(* C11.  insert_orphaned_block of a block whose hash is already pooled     *)
(* changes nothing: the hash has a single entry, under its parent, holding *)
(* the block; every other block stays; unknown_blocks and len() are        *)
(* unchanged.                                                              *)
(***************************************************************************)
C11_Step ==
    (call'.op = "insert_orphaned_block" /\ call'.arg \in PoolHashes(orphaned_blocks)) =>
        LET h == call'.arg
        IN  /\ BucketsOf(orphaned_blocks', h) = {prev[h]}
            /\ orphaned_blocks'[prev[h]][h] = IndexedBlock(h, prev[h])
            /\ PoolBlocks(orphaned_blocks') = PoolBlocks(orphaned_blocks)
            /\ orphaned_blocks' = orphaned_blocks
            /\ unknown_blocks' = unknown_blocks
            /\ len(orphaned_blocks') = len(orphaned_blocks)

\* C11: every insert_orphaned_block step on a hash that is already pooled leaves the pool, unknown_blocks and len() as they were.
C11_InsertOrphanedIdempotent == [][C11_Step]_vars

\* insert_orphaned_block was called on a block that insert_unknown_block had
\* stored before, and the block has a sibling in its bucket.
C11_Witness ==
    /\ call.op = "insert_orphaned_block"
    /\ contains_unknown_block(unknown_blocks, call.arg)
    /\ Cardinality(DOMAIN orphaned_blocks[prev[call.arg]]) >= 2

(***************************************************************************)
(* C12.  insert_unknown_block(b) panics exactly when b's hash is already   *)
(* in unknown_blocks; otherwise it returns, and then the hash is in        *)
(* unknown_blocks and the block is in orphaned_blocks under its parent.    *)
(***************************************************************************)
C12_Step ==
    call'.op = "insert_unknown_block" =>
        LET h == call'.arg
        IN  /\ panicked' <=> contains_unknown_block(unknown_blocks, h)
            /\ ~panicked' =>
                  /\ contains_unknown_block(unknown_blocks', h)
                  /\ prev[h] \in DOMAIN orphaned_blocks'
                  /\ h \in DOMAIN orphaned_blocks'[prev[h]]
                  /\ orphaned_blocks'[prev[h]][h] = IndexedBlock(h, prev[h])

\* C12: every insert_unknown_block step panics iff the hash was in unknown_blocks, and otherwise records the hash and the block.
C12_InsertUnknownAsserts == [][C12_Step]_vars

\* insert_unknown_block was called on a hash of unknown_blocks and panicked,
\* with another unknown block in the pool.
C12_Witness ==
    /\ call.op = "insert_unknown_block"
    /\ panicked
    /\ contains_unknown_block(unknown_blocks, call.arg)
    /\ Len(unknown_blocks) >= 2

(***************************************************************************)
(* C13.  unknown_blocks lists the unknown hashes in the order of their     *)
(* insert_unknown_block calls: a call puts its hash last, every step keeps *)
(* the relative order of the other entries, and no other method adds an    *)
(* entry.                                                                  *)
(***************************************************************************)
\* a occurs before b in the duplicate-free sequence s.
Before(s, a, b) == \E i, j \in DOMAIN s : i < j /\ s[i] = a /\ s[j] = b

C13_Step ==
    LET old == SeqToSet(unknown_blocks)
        now == SeqToSet(unknown_blocks')
        inserted == IF call'.op = "insert_unknown_block" THEN {call'.arg} ELSE {}
    IN  /\ NoDuplicates(unknown_blocks')
        /\ now \ old \subseteq inserted
        /\ inserted \subseteq now
        /\ \A h \in inserted : unknown_blocks'[Len(unknown_blocks')] = h
        /\ \A a, b \in (now \cap old) \ inserted :
              Before(unknown_blocks', a, b) <=> Before(unknown_blocks, a, b)
        /\ (call'.op = "insert_orphaned_block" => unknown_blocks' = unknown_blocks)

\* C13: every step keeps unknown_blocks in the order of the insert_unknown_block calls, and insert_orphaned_block never adds to it.
C13_UnknownInInsertionOrder == [][C13_Step]_vars

\* After a removal two unknown hashes remain, the larger one inserted first.
C13_Witness ==
    /\ IsRemoval
    /\ Len(ret) > 0
    /\ Len(unknown_blocks) = 2
    /\ unknown_blocks[1] > unknown_blocks[2]

(***************************************************************************)
(* Vocabulary of the data file properties.                                 *)
(***************************************************************************)
Opened == datafile # None /\ datafile.tag = "Ok"

IsAppendOp(op) == op \in {"append_link", "append_data", "append_referred"}

\* The offset of a position in the envelope stream: page trailers not counted.
StreamOffset(pref) ==
    (pref \div PAGE_SIZE) * PAGE_PAYLOAD_SIZE + Min(pref % PAGE_SIZE, PAGE_PAYLOAD_SIZE)

\* The bytes of the envelope of a payload: 3 bytes of length and the payload.
EnvelopeLength(payload) == 3 + Len(Payload_serialize(payload))

\* The entries of appended that truncate has not cut off.
Live == {i \in DOMAIN appended : appended[i].live}

SpansPages(a) == this_page(a.pref) # this_page(a.end - 1)

(***************************************************************************)
(* C14 as stated.  An append returns the position of the write cursor      *)
(* before the call and moves the cursor, a file offset, forward by exactly *)
(* the byte length of the envelope; the returned PRef is greater than the  *)
(* PRef of every earlier append that is still stored.                      *)
(***************************************************************************)
C14_StatedStep ==
    IsAppendOp(fcall'.op) =>
        LET before == Appender_position(datafile.value)
            after  == Appender_position(datafile'.value)
        IN  /\ fret' = OkValue(before)
            /\ after - before = EnvelopeLength(fcall'.payload)
            /\ \A i \in Live : appended[i].pref < fret'.value

\* C14 as stated: every append step returns the cursor position before it and advances the cursor by exactly the envelope's byte length.
C14_AdvancesByEnvelopeLength == [][C14_StatedStep]_vars

\* The pages the cursor completes on its way from before to after.
PagesCompleted(before, after) == this_page(after) \div PAGE_SIZE - this_page(before) \div PAGE_SIZE

(***************************************************************************)
(* C14 amended.  An append returns the position of the write cursor before *)
(* the call and moves the cursor forward by the byte length of the         *)
(* envelope and, for every page the envelope completes, by the             *)
(* PAGE_SIZE - PAGE_PAYLOAD_SIZE bytes of that page's trailer: the advance *)
(* is the envelope's length when counted in the envelope stream.  The      *)
(* returned PRef is greater than the PRef of every earlier append that is  *)
(* still stored.                                                           *)
(***************************************************************************)
C14_Step ==
    IsAppendOp(fcall'.op) =>
        LET before == Appender_position(datafile.value)
            after  == Appender_position(datafile'.value)
        IN  /\ fret' = OkValue(before)
            /\ after - before = EnvelopeLength(fcall'.payload)
                                + (PAGE_SIZE - PAGE_PAYLOAD_SIZE) * PagesCompleted(before, after)
            /\ StreamOffset(after) - StreamOffset(before) = EnvelopeLength(fcall'.payload)
            /\ after > before
            /\ \A i \in Live : appended[i].pref < fret'.value

\* C14: every append step returns the cursor position before it and advances the cursor by the envelope's length plus the trailers of the pages it completes, so the returned PRefs increase.
C14_AppendReturnsCursor == [][C14_Step]_vars

\* The second or a later append returned, and its envelope lies across a page
\* boundary: the cursor moved by more file bytes than the envelope has.
C14_Witness ==
    /\ Opened
    /\ IsAppendOp(fcall.op)
    /\ Len(appended) >= 2
    /\ LET last == appended[Len(appended)]
       IN  /\ fret = OkValue(last.pref)
           /\ last.pref > 0
           /\ SpansPages(last)
           /\ last.end - last.pref > EnvelopeLength(last.payload)

(***************************************************************************)
(* C15.  After appends to a data file opened on an empty file, envelopes() *)
(* yields exactly the pairs (returned PRef, envelope) of the appends, in   *)
(* append order, and get_envelope of a returned PRef is the envelope of    *)
(* that append, whose payload deserializes to the appended variant.        *)
(***************************************************************************)
EnvelopeOf(payload) == Envelope_new(Payload_serialize(payload))

C15_AppendRoundTrip ==
    (Opened /\ pristine) =>
        /\ DataFile_envelopes(file, datafile.value) =
               [i \in DOMAIN appended |-> <<appended[i].pref, EnvelopeOf(appended[i].payload)>>]
        /\ \A i \in DOMAIN appended :
               LET envelope == DataFile_get_envelope(file, datafile.value, appended[i].pref)
               IN  /\ envelope = EnvelopeOf(appended[i].payload)
                   /\ Payload_deserialize(Envelope_payload(envelope)) = OkValue(appended[i].payload)

\* Two appends of different variants were made to a new file, one of them
\* indexed, and the envelope of one lies across a page boundary.
C15_Witness ==
    /\ Opened
    /\ pristine
    /\ Len(appended) >= 2
    /\ \E i, j \in DOMAIN appended :
          /\ appended[i].payload.variant = "Indexed"
          /\ appended[j].payload.variant # "Indexed"
    /\ \E i \in DOMAIN appended : SpansPages(appended[i])

(***************************************************************************)
(* C16.  set_data(p, d) on an indexed or referred envelope returns Ok      *)
(* exactly when the payload with d in place of the data has the length of  *)
(* the stored payload; otherwise it returns ValueTooLong and the file, the *)
(* page under construction and the cursor are unchanged.                   *)
(***************************************************************************)
\* The payload stored at pref before the step.
StoredPayload(pref) ==
    Payload_deserialize(Envelope_payload(DataFile_get_envelope(file, datafile.value, pref)))

C16_Step ==
    fcall'.op = "set_data" =>
        LET read == StoredPayload(fcall'.pref)
        IN  (read.tag = "Ok" /\ read.value.variant \in {"Indexed", "Referred"}) =>
                LET stored == read.value
                    same   == Len(Payload_serialize([stored EXCEPT !.data = fcall'.data]))
                                  = Len(Payload_serialize(stored))
                IN  /\ fret'.tag = "Ok" <=> same
                    /\ ~same =>
                          /\ fret' = Err("ValueTooLong")
                          /\ file' = file
                          /\ datafile' = datafile
                          /\ DataFile_len(file', datafile'.value)
                                 = DataFile_len(file, datafile.value)

\* C16: every set_data step on indexed or referred data succeeds iff the new payload has the stored payload's length, and otherwise returns ValueTooLong and changes nothing.
C16_SetDataLengthDiscipline == [][C16_Step]_vars

\* set_data with shorter data on an indexed envelope returned ValueTooLong.
C16_Witness ==
    /\ Opened
    /\ fcall.op = "set_data"
    /\ fret = Err("ValueTooLong")
    /\ \E i \in Live :
          /\ appended[i].pref = fcall.pref
          /\ appended[i].payload.variant = "Indexed"
          /\ Len(fcall.data) < Len(appended[i].payload.data)

(***************************************************************************)
(* C17.  A set_data(p, d) that succeeds returns p; afterwards              *)
(* get_envelope(p) holds the stored payload with d as its data (same       *)
(* variant, same key), and the cursor, the file length and the envelope of *)
(* every other append are unchanged.                                       *)
(***************************************************************************)
C17_Step ==
    (fcall'.op = "set_data" /\ fret'.tag = "Ok") =>
        LET p      == fcall'.pref
            stored == StoredPayload(p).value
            now    == DataFile_get_envelope(file', datafile'.value, p)
        IN  /\ fret' = OkValue(p)
            /\ Payload_deserialize(Envelope_payload(now))
                   = OkValue([stored EXCEPT !.data = fcall'.data])
            /\ Appender_position(datafile'.value) = Appender_position(datafile.value)
            /\ DataFile_len(file', datafile'.value) = DataFile_len(file, datafile.value)
            /\ \A i \in Live :
                   appended[i].pref # p =>
                      DataFile_get_envelope(file', datafile'.value, appended[i].pref)
                         = DataFile_get_envelope(file, datafile.value, appended[i].pref)
            /\ LET was == DataFile_envelopes(file, datafile.value)
                   is  == DataFile_envelopes(file', datafile'.value)
               IN  [i \in DOMAIN is |-> is[i][1]] = [i \in DOMAIN was |-> was[i][1]]

\* C17: every successful set_data step returns its PRef, stores the new data in place and leaves the cursor, the file length and the other envelopes unchanged.
C17_SetDataInPlace == [][C17_Step]_vars

\* set_data replaced the data of an indexed envelope that lies across a page
\* boundary and has a neighbour, by different data.
C17_Witness ==
    /\ Opened
    /\ fcall.op = "set_data"
    /\ fret = OkValue(fcall.pref)
    /\ Cardinality(Live) >= 2
    /\ \E i \in Live :
          /\ appended[i].pref = fcall.pref
          /\ appended[i].payload.variant = "Indexed"
          /\ appended[i].payload.data # fcall.data
          /\ SpansPages(appended[i])

(***************************************************************************)
(* C18.  The length of the file reported by len() is a multiple of the     *)
(* page size after any sequence of operations on an open data file.        *)
(***************************************************************************)
C18_LenIsWholePages ==
    Opened => DataFile_len(file, datafile.value) % PAGE_SIZE = 0

(***************************************************************************)
(* C19.  DataFile::new fails with Corrupted exactly when the length of the *)
(* file is no multiple of PAGE_SIZE; otherwise the cursor starts at the    *)
(* length of the file, and the first append returns that length.           *)
(***************************************************************************)
C19_Step ==
    /\ fcall'.op = "new" =>
          /\ datafile' = Err("Corrupted") <=> Len(file) % PAGE_SIZE # 0
          /\ Len(file) % PAGE_SIZE = 0 =>
                /\ datafile'.tag = "Ok"
                /\ Appender_position(datafile'.value) = Len(file)
    /\ (fcall.op = "new" /\ IsAppendOp(fcall'.op)) => fret' = OkValue(fcall.len)

\* C19: every DataFile::new step fails iff the file length is misaligned and otherwise puts the cursor at the file length, which the first append returns.
C19_NewChecksAlignment == [][C19_Step]_vars

\* The data file was opened on a file of one page and the first append
\* returned the length of that file.
C19_Witness ==
    /\ Opened
    /\ IsAppendOp(fcall.op)
    /\ Len(appended) = 1
    /\ fret = OkValue(PAGE_SIZE)
    /\ appended[1].pref = PAGE_SIZE

(***************************************************************************)
(* C20.  set_data on the PRef of a link panics, whatever the length of the *)
(* new data: it returns neither Ok nor ValueTooLong, and the file, the     *)
(* page under construction and the cursor are unchanged.                   *)
(***************************************************************************)
C20_Step ==
    fcall'.op = "set_data" =>
        LET read == StoredPayload(fcall'.pref)
        IN  (read.tag = "Ok" /\ read.value.variant = "Link") =>
                /\ fret' = Panic
                /\ fret'.tag \notin {"Ok", "ValueTooLong"}
                /\ file' = file
                /\ datafile' = datafile

\* C20: every set_data step on a link panics and changes nothing.
C20_SetDataOnLinkPanics == [][C20_Step]_vars

\* set_data was called on a link with data as long as the link's content and panicked.
C20_Witness ==
    /\ Opened
    /\ fcall.op = "set_data"
    /\ fret = Panic
    /\ \E i \in Live :
          /\ appended[i].pref = fcall.pref
          /\ appended[i].payload.variant = "Link"
          /\ Len(fcall.data) = Len(appended[i].payload.links)

(***************************************************************************)
(* Vocabulary of the iterator properties.                                  *)
(***************************************************************************)
Iterating == Usable /\ iter # None

\* The length header the iterator finds at its position.
HeaderAt(pos) == read_u24(Appender_read(file, Appender, pos, 3).buf)

\* What the next call of next() would return.
NextCall == EnvelopeIterator_next(file, Appender, iter.value)

(***************************************************************************)
(* C21.  envelopes() is a finite single-pass iteration: it starts at PRef  *)
(* 0; next() returns None exactly at a position that is invalid or whose   *)
(* length header reads zero, and otherwise yields the envelope at the      *)
(* position and moves strictly forward, so that nothing located after the  *)
(* stopping position is yielded; the position never passes the write       *)
(* position; once next() has returned None, the next call returns None and *)
(* leaves the iterator where it is.                                        *)
(***************************************************************************)
C21_IterationStopsAtZeroLength ==
    Iterating =>
        LET pos == iter.value.pos
        IN  /\ item = Pending => pos = 0
            /\ pos <= Appender_position(Appender)
            /\ NextCall.item = None <=> (~is_valid(pos) \/ HeaderAt(pos) = 0)
            /\ NextCall.item # None =>
                    /\ NextCall.item.value[1] = pos
                    /\ NextCall.iter.pos > pos
            /\ (item # Pending /\ item # None) => item.value[1] < pos
            /\ item = None =>
                    /\ NextCall.item = None
                    /\ NextCall.iter = iter.value

\* next() has yielded an envelope and then returned None at the padding a
\* flush left, while a later append lies after that position.
C21_Witness ==
    /\ Iterating
    /\ item = None
    /\ iter.value.pos > 0
    /\ \E i \in DOMAIN appended :
            /\ appended[i].live
            /\ appended[i].pref > iter.value.pos

(***************************************************************************)
(* C30.  remove_blocks_for_parent(h) leaves what does not descend from h   *)
(* untouched: every pooled block that is no descendant of h stays in its   *)
(* bucket, is unknown after the call iff it was before, and the entries    *)
(* that remain in unknown_blocks keep their relative order.                *)
(***************************************************************************)
C30_Step ==
    call'.op = "remove_blocks_for_parent" =>
        LET D       == Descendants(orphaned_blocks, {call'.arg})
            others  == PoolHashes(orphaned_blocks) \ D
            remains == SeqToSet(unknown_blocks')
        IN  /\ \A b \in others :
                    /\ BucketsOf(orphaned_blocks', b) = BucketsOf(orphaned_blocks, b)
                    /\ \A p \in BucketsOf(orphaned_blocks, b) :
                            orphaned_blocks'[p][b] = orphaned_blocks[p][b]
                    /\ contains_unknown_block(unknown_blocks', b)
                            <=> contains_unknown_block(unknown_blocks, b)
            /\ remains \subseteq SeqToSet(unknown_blocks)
            /\ NoDuplicates(unknown_blocks')
            /\ \A a, b \in remains :
                    Before(unknown_blocks', a, b) <=> Before(unknown_blocks, a, b)

\* C30: every remove_blocks_for_parent step keeps the blocks that do not descend from its argument in their buckets, with their unknown status and their order in unknown_blocks.
C30_RemoveForParentFrame == [][C30_Step]_vars

\* remove_blocks_for_parent returned a block while two unknown blocks, which
\* do not descend from h, stay pooled.
C30_Witness ==
    /\ call.op = "remove_blocks_for_parent"
    /\ Len(ret) >= 1
    /\ Len(unknown_blocks) >= 2
    /\ \A i \in DOMAIN unknown_blocks : unknown_blocks[i] \in PoolHashes(orphaned_blocks)

(***************************************************************************)
(* Vocabulary of the properties of the six checks.                         *)
(***************************************************************************)
\* The check name was called on the candidate.
Ran(name) == subcheck # Pending /\ subcheck.name = name

Txs == candidate.block.transactions

\* Some transaction of the candidate is not final at (height, cutoff).
SomeNonFinal(cutoff) ==
    \E i \in DOMAIN Txs : ~is_final_in_block(Txs[i], candidate.height, cutoff)

(***************************************************************************)
(* C22.  BlockFinality.check returns NonFinalBlock iff at least one        *)
(* transaction of the block is not final at (height, cutoff), where the    *)
(* cutoff is the median timestamp of the past 11 headers when CSV is       *)
(* active and the header's own time when it is not; otherwise it returns   *)
(* Ok.                                                                     *)
(***************************************************************************)
C22_FinalityCutoff ==
    Ran("finality") =>
        /\ candidate.csv_active =>
                (subcheck.result = Err("NonFinalBlock")
                    <=> SomeNonFinal(candidate.median_timestamp))
        /\ ~candidate.csv_active =>
                (subcheck.result = Err("NonFinalBlock")
                    <=> SomeNonFinal(candidate.block.header.time))
        /\ subcheck.result \in {Ok, Err("NonFinalBlock")}

\* With CSV active a block was rejected whose transactions are all final at
\* the header's time: one lock time lies between the median and that time.
C22_Witness ==
    /\ Ran("finality")
    /\ candidate.csv_active
    /\ subcheck.result = Err("NonFinalBlock")
    /\ ~SomeNonFinal(candidate.block.header.time)

\* The weight of the candidate as the rules define it.
Weight ==
    candidate.block.size * (candidate.consensus.witness_scale_factor - 1)
        + candidate.block.size_with_witness

(***************************************************************************)
(* C23.  BlockSerializedSize.check compares the base size with            *)
(* max_block_size, SegWit active or not: it fails with Size carrying the   *)
(* base size iff that size is greater than max_block_size; a base size of  *)
(* exactly max_block_size passes the size test and max_block_size + 1      *)
(* fails with Size(max_block_size + 1).                                    *)
(***************************************************************************)
C23_SizeLimit ==
    Ran("serialized_size") =>
        LET size == candidate.block.size
            max  == candidate.consensus.max_block_size
        IN  /\ size > max <=> subcheck.result = ErrSize(size)
            /\ size = max => subcheck.result.tag # "Size"
            /\ size = max + 1 => subcheck.result = ErrSize(max + 1)

\* With SegWit active a block of exactly max_block_size passed.
C23_Witness ==
    /\ Ran("serialized_size")
    /\ candidate.segwit_active
    /\ candidate.block.size = candidate.consensus.max_block_size
    /\ subcheck.result = Ok

(***************************************************************************)
(* C24.  The weight limit is enforced only when SegWit is active: with     *)
(* SegWit active and the base size within max_block_size the check fails   *)
(* with Weight iff base_size * (witness_scale_factor - 1) +                *)
(* size_with_witness > max_block_weight; with SegWit inactive it never     *)
(* returns Weight.                                                         *)
(***************************************************************************)
C24_WeightLimit ==
    Ran("serialized_size") =>
        /\ (candidate.segwit_active
                /\ candidate.block.size <= candidate.consensus.max_block_size) =>
                (subcheck.result = Err("Weight")
                    <=> Weight > candidate.consensus.max_block_weight)
        /\ ~candidate.segwit_active => subcheck.result # Err("Weight")
        /\ (~candidate.segwit_active
                /\ candidate.block.size <= candidate.consensus.max_block_size) =>
                subcheck.result = Ok

\* With SegWit inactive a block over max_block_weight passed.
C24_Witness ==
    /\ Ran("serialized_size")
    /\ ~candidate.segwit_active
    /\ Weight > candidate.consensus.max_block_weight
    /\ subcheck.result = Ok

\* BIP16 counts as active for the candidate.
Bip16Active == candidate.block.header.time >= candidate.consensus.bip16_time

\* The sigops and the sigops cost of all transactions of the candidate.
TotalSigops ==
    SumSeq([i \in DOMAIN Txs |-> transaction_sigops(Txs[i], Bip16Active)])

TotalSigopsCost ==
    SumSeq([i \in DOMAIN Txs |->
               transaction_sigops_cost(Txs[i], transaction_sigops(Txs[i], Bip16Active))])

(***************************************************************************)
(* C25.  BlockSigops.check sums sigops and sigops cost over all            *)
(* transactions, BIP16 counting as active iff block time >= bip16_time; it *)
(* fails with MaximumSigops iff the total sigops exceed max_block_sigops,  *)
(* otherwise with MaximumSigopsCost iff the total cost exceeds             *)
(* max_block_sigops_cost, otherwise it returns Ok.  Totals equal to the    *)
(* limits pass and MaximumSigops wins when both limits are exceeded.       *)
(***************************************************************************)
C25_SigopsLimits ==
    Ran("sigops") =>
        LET many   == TotalSigops > candidate.consensus.max_block_sigops
            costly == TotalSigopsCost > candidate.consensus.max_block_sigops_cost
        IN  /\ subcheck.result = Err("MaximumSigops") <=> many
            /\ subcheck.result = Err("MaximumSigopsCost") <=> (~many /\ costly)
            /\ subcheck.result = Ok <=> (~many /\ ~costly)

\* The coinbase and another transaction together reach exactly both limits,
\* and the block passed.
C25_Witness ==
    /\ Ran("sigops")
    /\ TotalSigops = candidate.consensus.max_block_sigops
    /\ TotalSigopsCost = candidate.consensus.max_block_sigops_cost
    /\ \A i \in DOMAIN Txs : transaction_sigops(Txs[i], Bip16Active) > 0
    /\ subcheck.result = Ok

(***************************************************************************)
(* Vocabulary of the coinbase claim, in unbounded arithmetic.  Transaction *)
(* number i of the model has the index i - 1 in the block.                 *)
(***************************************************************************)
\* The sum of the prevout values of a transaction, a missing prevout counting as 0.
InputSum(tx) ==
    SumSeq([i \in DOMAIN tx.inputs |->
               IF tx.inputs[i].prevout.some THEN tx.inputs[i].prevout.value ELSE 0])

OutputSum(tx) == SumSeq([i \in DOMAIN tx.outputs |-> tx.outputs[i].value])

\* The fees of the transactions after the coinbase and before number i.
FeesBefore(i) ==
    SumSeq([j \in 1..(i - 2) |-> InputSum(Txs[j + 1]) - OutputSum(Txs[j + 1])])

InputsOverflow(i) == InputSum(Txs[i]) > MaxU64

Overspends(i) == OutputSum(Txs[i]) > InputSum(Txs[i])

FeesOverflow(i) == FeesBefore(i) + InputSum(Txs[i]) - OutputSum(Txs[i]) > MaxU64

\* The transactions after the coinbase with which something goes wrong.
Troubled == {i \in 2..Len(Txs) : InputsOverflow(i) \/ Overspends(i) \/ FeesOverflow(i)}

FirstTroubled == CHOOSE i \in Troubled : \A j \in Troubled : i <= j

TotalFees == FeesBefore(Len(Txs) + 1)

RewardOverflow == TotalFees + candidate.block_reward > MaxU64

(***************************************************************************)
(* C26.  BlockCoinbaseClaim.check works on u64 amounts without wraparound: *)
(* for the first transaction after the coinbase with which something goes  *)
(* wrong it returns ReferencedInputsSumOverflow if the sum of its prevout  *)
(* values (a missing prevout counting as 0) exceeds 2^64 - 1, else         *)
(* Transaction(index, Overspend) if its outputs exceed that sum, else      *)
(* TransactionFeesOverflow, the accumulated fees exceeding 2^64 - 1; if    *)
(* nothing goes wrong in the scan it returns                               *)
(* TransactionFeeAndRewardOverflow iff fees + block_reward(height) exceeds *)
(* 2^64 - 1.                                                               *)
(***************************************************************************)
C26_ClaimOverflows ==
    (Ran("coinbase_claim") /\ Txs # << >>) =>
        IF Troubled # {}
        THEN LET i == FirstTroubled
             IN  /\ InputsOverflow(i) =>
                        subcheck.result = Err("ReferencedInputsSumOverflow")
                 /\ (~InputsOverflow(i) /\ Overspends(i)) =>
                        subcheck.result = ErrTransaction(i - 1, "Overspend")
                 /\ (~InputsOverflow(i) /\ ~Overspends(i)) =>
                        subcheck.result = Err("TransactionFeesOverflow")
        ELSE /\ subcheck.result = Err("TransactionFeeAndRewardOverflow") <=> RewardOverflow
             /\ subcheck.result.tag \in {"TransactionFeeAndRewardOverflow", "CoinbaseOverspend", "Ok"}

\* The fees of two transactions, each within u64, together exceed the
\* largest u64, and the check said so.
C26_Witness ==
    /\ Ran("coinbase_claim")
    /\ Len(Txs) = 3
    /\ Troubled = {3}
    /\ FeesBefore(3) > 0
    /\ ~InputsOverflow(3)
    /\ ~Overspends(3)
    /\ subcheck.result = Err("TransactionFeesOverflow")

(***************************************************************************)
(* C27.  When no overflow and no overspend of a transaction occurs,        *)
(* BlockCoinbaseClaim.check returns Ok iff the coinbase's total outputs    *)
(* are <= reward, where reward = block_reward(height) + the sum over the   *)
(* transactions after the coinbase of (inputs - outputs); otherwise it     *)
(* returns CoinbaseOverspend with expected_max = reward and actual = the   *)
(* coinbase's total outputs.  The coinbase adds nothing to the fees.       *)
(***************************************************************************)
C27_CoinbaseClaim ==
    (Ran("coinbase_claim") /\ Txs # << >> /\ Troubled = {} /\ ~RewardOverflow) =>
        LET reward == candidate.block_reward + TotalFees
            claim  == OutputSum(Txs[1])
        IN  /\ subcheck.result = Ok <=> claim <= reward
            /\ claim > reward => subcheck.result = ErrCoinbaseOverspend(reward, claim)

\* Two transactions paid fees and the coinbase claimed one more than the
\* subsidy and the fees.
C27_Witness ==
    /\ Ran("coinbase_claim")
    /\ Len(Txs) = 3
    /\ Troubled = {}
    /\ TotalFees > 0
    /\ candidate.block_reward > 0
    /\ OutputSum(Txs[1]) = candidate.block_reward + TotalFees + 1
    /\ subcheck.result = ErrCoinbaseOverspend(candidate.block_reward + TotalFees,
                                               OutputSum(Txs[1]))

\* The candidate has a coinbase with an input, and its script_sig begins
\* with the bytes of prefix.
CoinbaseScriptBeginsWith(prefix) ==
    /\ Txs # << >>
    /\ Txs[1].inputs # << >>
    /\ starts_with(Txs[1].inputs[1].script_sig, prefix)

Bip34Active == candidate.height >= candidate.consensus.bip34_height

(***************************************************************************)
(* C28.  BlockCoinbaseScript.check is enforced iff height >= bip34_height: *)
(* when inactive it returns Ok for every block; when active it returns Ok  *)
(* iff the script_sig of the first input of the first transaction begins   *)
(* with the minimal push of the block height, and CoinbaseScript otherwise *)
(* (also when the block has no transaction or the coinbase no input).  A   *)
(* script that begins with the push of height H passes at height H and,    *)
(* the check being active, fails at height H - 1; the push of 461373 is    *)
(* 03 3d 0a 07.                                                            *)
(***************************************************************************)
C28_CoinbaseScriptHeight ==
    Ran("coinbase_script") =>
        /\ ~Bip34Active => subcheck.result = Ok
        /\ Bip34Active =>
                /\ subcheck.result = Ok <=> CoinbaseScriptBeginsWith(push_num(candidate.height))
                /\ subcheck.result \in {Ok, Err("CoinbaseScript")}
                /\ CoinbaseScriptBeginsWith(push_num(candidate.height + 1)) =>
                        subcheck.result = Err("CoinbaseScript")
        /\ (candidate.height = 461373 /\ CoinbaseScriptBeginsWith(<<3, 61, 10, 7>>)) =>
                subcheck.result = Ok
        /\ (candidate.height = 461372 /\ CoinbaseScriptBeginsWith(<<3, 61, 10, 7>>)) =>
                subcheck.result = Err("CoinbaseScript")

\* The coinbase script begins with 03 3d 0a 07 followed by more bytes, and
\* the block was rejected at height 461372.
C28_Witness ==
    /\ Ran("coinbase_script")
    /\ candidate.height = 461372
    /\ CoinbaseScriptBeginsWith(<<3, 61, 10, 7>>)
    /\ Len(Txs[1].inputs[1].script_sig) > 4
    /\ subcheck.result = Err("CoinbaseScript")

(***************************************************************************)
(* Vocabulary of the witness check.                                        *)
(***************************************************************************)
\* The numbers of the coinbase outputs whose script is a witness commitment.
Commitments ==
    IF Txs = << >> THEN {}
    ELSE {i \in DOMAIN Txs[1].outputs :
             is_witness_commitment_script(Txs[1].outputs[i].script_pubkey)}

\* The script of the last of them.
CommitmentScriptUsed ==
    Txs[1].outputs[CHOOSE i \in Commitments : \A j \in Commitments : j <= i].script_pubkey

\* The first input of the coinbase has exactly one witness item of 32 bytes.
NonceSizeValid ==
    /\ Txs[1].inputs # << >>
    /\ Len(Txs[1].inputs[1].script_witness) = 1
    /\ Len(Txs[1].inputs[1].script_witness[1]) = 32

\* The bytes after the 6-byte tag of script are the hash of the witness
\* merkle root and the nonce.
CommitmentMatches(script) ==
    /\ Len(script) - 6 = 32
    /\ SubSeq(script, 7, Len(script))
           = dhash256(<<candidate.block.witness_merkle_root>> \o Txs[1].inputs[1].script_witness[1])

AnyWitnessData == \E i \in DOMAIN Txs : has_witness(Txs[i])

(***************************************************************************)
(* C29.  BlockWitness.check returns Ok for every block when SegWit is      *)
(* inactive.  When active it uses the last coinbase output that matches    *)
(* the witness commitment pattern: if there is one it returns              *)
(* WitnessInvalidNonceSize unless the coinbase's first input has exactly   *)
(* one witness item of exactly 32 bytes, else                              *)
(* WitnessMerkleCommitmentMismatch unless dhash256(witness_merkle_root ||  *)
(* nonce) equals the bytes after the 6-byte tag, else Ok; if there is none *)
(* it returns UnexpectedWitness iff some transaction carries witness data, *)
(* else Ok.                                                                *)
(***************************************************************************)
C29_WitnessCommitment ==
    Ran("witness") =>
        /\ ~candidate.segwit_active => subcheck.result = Ok
        /\ (candidate.segwit_active /\ Commitments # {}) =>
                subcheck.result =
                    (IF ~NonceSizeValid THEN Err("WitnessInvalidNonceSize")
                     ELSE IF ~CommitmentMatches(CommitmentScriptUsed)
                     THEN Err("WitnessMerkleCommitmentMismatch")
                     ELSE Ok)
        /\ (candidate.segwit_active /\ Commitments = {}) =>
                subcheck.result = (IF AnyWitnessData THEN Err("UnexpectedWitness") ELSE Ok)

\* The coinbase has two commitments, the first to another witness merkle
\* root, the last to the one of the block, and the block passed.
C29_Witness ==
    /\ Ran("witness")
    /\ candidate.segwit_active
    /\ Cardinality(Commitments) = 2
    /\ NonceSizeValid
    /\ \E i \in Commitments : ~CommitmentMatches(Txs[1].outputs[i].script_pubkey)
    /\ subcheck.result = Ok

(***************************************************************************)
(* Vocabulary of the traversal properties.                                 *)
(***************************************************************************)
\* A remove_blocks_for_parent call is inside its loop.
InLoop == traversal # Pending /\ ~traversal.returned

\* The call has returned.
Returned == traversal # Pending /\ traversal.returned

\* The pooled blocks that name themselves as parent.
SelfParents == {b \in PoolBlocks(orphaned_blocks) : b.previous_header_hash = b.hash}

\* What holds at every point of a call: every hash that was queued (the
\* start hash and one per removed block) is either popped or still queued,
\* and no block was removed twice, that is, no bucket was expanded twice.
TraversalCount ==
    traversal # Pending =>
        /\ traversal.iterations + Len(traversal.queue) = 1 + Len(traversal.removed)
        /\ NoDuplicates(traversal.removed)
        /\ PoolBlocks(orphaned_blocks) \cap SeqToSet(traversal.removed) = {}
        /\ (traversal.returned =>
                /\ ret = traversal.removed
                /\ traversal.iterations <= 1 + Len(ret))

(***************************************************************************)
(* C31.  remove_blocks_for_parent terminates for every pool state and      *)
(* every start hash, also when the parent links of the pooled blocks form  *)
(* a cycle or a block names itself as parent: a bucket is removed when it  *)
(* is first visited, so no bucket is expanded twice, and the loop body     *)
(* runs at most 1 + (number of blocks returned) times.                     *)
(***************************************************************************)
C31_TraversalTerminates == []TraversalCount /\ (InLoop ~> Returned)

\* A call returned the block of its start hash, reached through another block
\* (a cycle of two or more blocks), while a block that names itself as parent
\* stays in the pool.
C31_Witness ==
    /\ Returned
    /\ Len(ret) >= 2
    /\ \E i \in DOMAIN ret : ret[i].hash = call.arg /\ ret[i].previous_header_hash # call.arg
    /\ SelfParents # {}

(***************************************************************************)
(* Vocabulary of the ownership property.                                   *)
(***************************************************************************)
\* The hashes a removal call handed to its caller: remove_blocks returns
\* hashes, remove_blocks_for_parent returns blocks.
HandedOver(c, r) ==
    IF c.op = "remove_blocks" THEN SeqToSet(r)
    ELSE IF c.op = "remove_blocks_for_parent" THEN {r[i].hash : i \in DOMAIN r}
    ELSE {}

IsInsert(c) == c.op \in {"insert_orphaned_block", "insert_unknown_block"}

(***************************************************************************)
(* C32.  Removal is exact and transfers ownership.  The list returned by   *)
(* remove_blocks contains no hash twice, also when the input holds a block *)
(* and its descendant, and the number of pooled blocks goes down by the    *)
(* length of the list.  What remove_blocks or remove_blocks_for_parent     *)
(* returns was pooled before the call and is not pooled after it, and only *)
(* an insert puts a block into the pool: so no block is returned by two    *)
(* removal calls unless it was inserted again in between.                  *)
(***************************************************************************)
C32_Step ==
    /\ call'.op = "remove_blocks" =>
            /\ NoDuplicates(ret')
            /\ Cardinality(PoolBlocks(orphaned_blocks))
                   - Cardinality(PoolBlocks(orphaned_blocks')) = Len(ret')
    /\ call'.op \in {"remove_blocks", "remove_blocks_for_parent"} =>
            /\ HandedOver(call', ret') \subseteq PoolHashes(orphaned_blocks)
            /\ HandedOver(call', ret') \cap PoolHashes(orphaned_blocks') = {}
            /\ HandedOver(call', ret') \cap HandedOver(call, ret) = {}
    /\ ~IsInsert(call') => PoolHashes(orphaned_blocks') \subseteq PoolHashes(orphaned_blocks)

\* C32: every removal step returns each block once, takes exactly the returned blocks' number out of the pool, and returns nothing an earlier removal returned unless an insert put it back.
C32_RemovalTransfersOwnership == [][C32_Step]_vars

\* remove_blocks was given a block and its child, and returned both and a
\* further descendant that was not in the input.
C32_Witness ==
    /\ call.op = "remove_blocks"
    /\ \E i, j, k \in DOMAIN ret :
        /\ ret[i] \in call.arg
        /\ ret[j] \in call.arg
        /\ prev[ret[j]] = ret[i]
        /\ ret[k] \notin call.arg
        /\ prev[ret[k]] = ret[j]
====
